---- MODULE Spec2Model ----
(***************************************************************************)
(* speed-snap-pro: the run orchestrator (SpeedSnap.tsx with the hooks      *)
(* useGPSTracking and useSensorFusion), the State Estimator                *)
(* (ExtendedKalmanFilter.ts) and the Launch Detector (LaunchDetector with  *)
(* the IMUFilters of ButterworthFilter.ts).                                 *)
(*                                                                         *)
(* Units.  Times are integer milliseconds (the source divides by 1000 and  *)
(* keeps seconds), speeds are tenths of a km/h ("dkmh"), GPS speeds are    *)
(* mm/s, distances are mm, positions are metres along one meridian (the    *)
(* haversine distance of two points of a meridian is the difference of     *)
(* their offsets), accelerations are tenths of a m/s^2.  Divisions round   *)
(* down where the source keeps a double.                                   *)
(*                                                                         *)
(* React.  A callback sees the state of the render that created it.  A     *)
(* callback handed to the platform (the geolocation watch, the motion      *)
(* listener, a timer) keeps that render's values for as long as it stays   *)
(* registered; the model carries them as closure records.  Every handler   *)
(* is one atomic step that ends with the re-render and its effects.        *)
(***************************************************************************)
EXTENDS Integers, Sequences, FiniteSets, TLC

(***************************************************************************)
(* Bounds of the model.                                                    *)
(***************************************************************************)
MaxFixes == 2
MaxMotion == 1
MaxClock == 1
MaxSimTicks == 2
MaxSims == 2
MaxArms == 2
MaxEvents == 9
MaxLdCalls == 5
MaxLdResets == 1

\* JS null for the number-or-null fields; every number the program stores is >= 0
NULL == 0 - 1
Truthy(x) == x # NULL /\ x # 0
Abs(x) == IF x < 0 THEN 0 - x ELSE x
Max(a, b) == IF a >= b THEN a ELSE b
Min(a, b) == IF a <= b THEN a ELSE b

(***************************************************************************)
(* State Estimator: ExtendedKalmanFilter.ts, the class in force (the       *)
(* second declaration of the file).  The covariance is kept in millionths  *)
(* (PScale), a gain in thousandths (KScale).                               *)
(***************************************************************************)
PScale == 1000 * 1000
KScale == 10 * 100
Q00 == 1000
Q11 == 5000
R00 == 500000
R11 == 200000

EkfNew == [x0 |-> 0, x1 |-> 0, P00 |-> PScale, P11 |-> PScale]

\* reset(): state and covariance as constructed; Q and R are not assigned
EkfReset(e) == [e EXCEPT !.x0 = 0, !.x1 = 0, !.P00 = PScale, !.P11 = PScale]

\* a predict that extrapolates the speed from the acceleration and adds Q
\* whatever dt is
EkfPredictExtrapolating(e, dtMs) ==
  [e EXCEPT !.x0 = @ + (e.x1 * dtMs * 36) \div (100 * 100),
            !.P00 = @ + Q00,
            !.P11 = @ + Q11]

\* predict(dt): only the covariance moves, by Q * dt (dt in ms here)
EkfPredict(e, dtMs) ==
  [e EXCEPT !.P00 = @ + (Q00 * dtMs) \div 1000,
            !.P11 = @ + (Q11 * dtMs) \div 1000]

EkfGain(p, r) == IF p + r < 0 THEN (0 - p * KScale) \div (0 - (p + r)) ELSE (p * KScale) \div (p + r)

\* an update that does not move the speed estimate
EkfUpdateKeepsSpeed(e, m0, m1) ==
  [e EXCEPT !.x1 = @ + (EkfGain(e.P11, R11) * (m1 - @)) \div KScale,
            !.P00 = (@ * (KScale - EkfGain(e.P00, R00))) \div KScale,
            !.P11 = (@ * (KScale - EkfGain(e.P11, R11))) \div KScale]

\* an update in which the acceleration innovation also moves the speed
EkfUpdateCoupled(e, m0, m1) ==
  LET K0 == EkfGain(e.P00, R00)
      K1 == EkfGain(e.P11, R11)
  IN [x0 |-> e.x0 + (K0 * (m0 - e.x0)) \div KScale + (K1 * (m1 - e.x1)) \div KScale,
      x1 |-> e.x1 + (K1 * (m1 - e.x1)) \div KScale,
      P00 |-> (e.P00 * (KScale - K0)) \div KScale,
      P11 |-> (e.P11 * (KScale - K1)) \div KScale]

\* update([speed, accel]): per-state gain, innovation, covariance shrink
EkfUpdate(e, m0, m1) ==
  LET K0 == EkfGain(e.P00, R00)
      K1 == EkfGain(e.P11, R11)
  IN [x0 |-> e.x0 + (K0 * (m0 - e.x0)) \div KScale,
      x1 |-> e.x1 + (K1 * (m1 - e.x1)) \div KScale,
      P00 |-> (e.P00 * (KScale - K0)) \div KScale,
      P11 |-> (e.P11 * (KScale - K1)) \div KScale]

(***************************************************************************)
(* DataProcessing.ts: OutlierDetector and SavitzkyGolayFilter.  A data     *)
(* point is [time, speed].  Medians are kept doubled so that the mean of   *)
(* the two middle values stays an integer.                                 *)
(***************************************************************************)
RECURSIVE Insert(_, _)
Insert(sorted, v) ==
  IF sorted = <<>> THEN <<v>>
  ELSE IF v <= Head(sorted) THEN <<v>> \o sorted
  ELSE <<Head(sorted)>> \o Insert(Tail(sorted), v)

RECURSIVE SortAsc(_)
SortAsc(s) == IF s = <<>> THEN <<>> ELSE Insert(SortAsc(Tail(s)), Head(s))

\* twice OutlierDetector.median(values)
Median2(values) ==
  LET sorted == SortAsc(values)
      n == Len(sorted)
      mid == n \div 2
  IN IF n = 0 THEN 0
     ELSE IF n % 2 = 1 THEN 2 * sorted[mid + 1]
     ELSE sorted[mid] + sorted[mid + 1]

Speeds(data) == [i \in 1..Len(data) |-> data[i].speed]

\* four times OutlierDetector.medianAbsoluteDeviation(values)
Mad4(values) ==
  LET m2 == Median2(values)
  IN Median2([i \in 1..Len(values) |-> Abs(2 * values[i] - m2)])

\* detectOutliers without its test for a zero MAD: the score of a point off
\* the median is then infinite
detectOutliersNoZeroTest(data, thr10) ==
  LET speeds == Speeds(data)
      mad4 == Mad4(speeds)
      m2 == Median2(speeds)
  IN [i \in 1..Len(data) |->
        IF mad4 = 0 THEN 2 * speeds[i] # m2
        ELSE 1349 * 2 * Abs(2 * speeds[i] - m2) > thr10 * 200 * mad4]

\* detectOutliers with threshold thr10 / 10:  0.6745 * |s - median| / mad > threshold
detectOutliers(data, thr10) ==
  LET speeds == Speeds(data)
      mad4 == Mad4(speeds)
      m2 == Median2(speeds)
  IN [i \in 1..Len(data) |->
        IF mad4 = 0 THEN FALSE
        ELSE 1349 * 2 * Abs(2 * speeds[i] - m2) > thr10 * 200 * mad4]

RECURSIVE KeepNot(_, _)
KeepNot(data, flags) ==
  IF data = <<>> THEN <<>>
  ELSE (IF Head(flags) THEN <<>> ELSE <<Head(data)>>) \o KeepNot(Tail(data), Tail(flags))

removeOutliers(data, thr10) == KeepNot(data, detectOutliers(data, thr10))

SGEdge == <<0 - 3, 12, 17, 12, 0 - 3>>
SGCentre == <<5, 20, 35, 20, 5>>
SGCentreSum == 35

SGSum(coeffs, data, start) ==
  coeffs[1] * data[start].speed + coeffs[2] * data[start + 1].speed
  + coeffs[3] * data[start + 2].speed + coeffs[4] * data[start + 3].speed
  + coeffs[5] * data[start + 4].speed

\* a filter stamping each point with the time of the start of its window
SGFilterWindowTime(data) ==
  LET n == Len(data)
      edgeSum == SGEdge[1] + SGEdge[2] + SGEdge[3] + SGEdge[4] + SGEdge[5]
  IN IF n < 5 THEN data
     ELSE [i \in 1..n |->
             [time |-> data[Max(1, i - 2)].time,
              speed |-> IF i <= 2 THEN SGSum(SGEdge, data, 1) \div edgeSum
                        ELSE IF i >= n - 1 THEN SGSum(SGEdge, data, n - 4) \div edgeSum
                        ELSE SGSum(SGCentre, data, i - 2) \div SGCentreSum]]

\* SavitzkyGolayFilter.filter
SGFilter(data) ==
  LET n == Len(data)
      edgeSum == SGEdge[1] + SGEdge[2] + SGEdge[3] + SGEdge[4] + SGEdge[5]
  IN IF n < 5 THEN data
     ELSE [i \in 1..n |->
             [time |-> data[i].time,
              speed |-> IF i <= 2 THEN SGSum(SGEdge, data, 1) \div edgeSum
                        ELSE IF i >= n - 1 THEN SGSum(SGEdge, data, n - 4) \div edgeSum
                        ELSE SGSum(SGCentre, data, i - 2) \div SGCentreSum]]

LastN(s, n) == IF Len(s) <= n THEN s ELSE SubSeq(s, Len(s) - n + 1, Len(s))

(***************************************************************************)
(* State.                                                                  *)
(*   st      React state of the SpeedSnap component (with the hook state   *)
(*           gpsStatus), as committed by the last render                   *)
(*   refs    the useRef cells of SpeedSnap, useGPSTracking, useSensorFusion *)
(*   render  what the last render fixed for the callbacks it created: the  *)
(*           startTime prop and the memoised handleAccelerationDetected    *)
(*   env     the platform: the clock, the geolocation watches and motion   *)
(*           listeners with the callbacks registered on them, the pending  *)
(*           permission requests, the simulation timers, the saved records *)
(*   units   UnitsContext.units, fixed while SpeedSnap is mounted          *)
(*   ld      a LaunchDetector with the IMUFilters statics it shares, its    *)
(*           clock, and a record of what its calls returned                *)
(*   lab     a utility class run on its own (estimator, interpolator,      *)
(*           outlier detector, digital filter): its input, state, output   *)
(***************************************************************************)
VARIABLES st, refs, render, env, units, ld, lab

ovars == <<st, refs, render, env, units>>

vars == <<st, refs, render, env, units, ld, lab>>

Labels == {"0-20", "0-30", "0-40", "0-60", "0-80", "0-100", "0-120", "0-130",
           "0-200", "0-250", "quarterMile", "halfMile"}

NoTimes == [l \in Labels |-> NULL]

\* UnitsContext.getTargets: speeds (here in dkmh) and their labels
getTargets(u) ==
  IF u = "mph"
  THEN [speeds |-> <<200, 400, 600, 800, 1000, 1200>>,
        labels |-> <<"0-20", "0-40", "0-60", "0-80", "0-100", "0-120">>]
  ELSE [speeds |-> <<300, 600, 1000, 1300, 2000, 2500>>,
        labels |-> <<"0-30", "0-60", "0-100", "0-130", "0-200", "0-250">>]

QuarterMileMm == 402336
HalfMileMm == 804672

Status(s) == [s |-> s, a |-> 0]
StatusAcc(s, a) == [s |-> s, a |-> a]

World == [st |-> st, refs |-> refs, render |-> render, env |-> env]

(***************************************************************************)
(* Closures.  Snap(w) is what a callback created by the render of w sees:  *)
(* isRunning, waitingForAcceleration, startTriggered and the startTime     *)
(* prop.  handleAccelerationDetected is memoised on [startTriggered], so   *)
(* its closure (render.adc) is the Snap of the render where startTriggered *)
(* last changed; handlePosition of a render is [snap, ad].                 *)
(***************************************************************************)
Snap(w) == [isRunning |-> w.st.isRunning,
            startTime |-> w.render.startTime,
            waiting |-> w.st.waitingForAcceleration,
            startTriggered |-> w.st.startTriggered]

HandlePositionOf(w) == [snap |-> Snap(w), ad |-> w.render.adc]

StopClosureOf(w) == [isRunning |-> w.st.isRunning,
                     waiting |-> w.st.waitingForAcceleration,
                     dataPoints |-> w.st.dataPoints]

(***************************************************************************)
(* useGPSTracking.ts                                                       *)
(***************************************************************************)
FreeWatchId(w) ==
  CHOOSE n \in 1..(Cardinality(w.env.watches) + 1) :
    /\ \A x \in w.env.watches : x.id # n
    /\ \A m \in 1..(n - 1) : \E x \in w.env.watches : x.id = m

stopGPSTracking(w) ==
  IF Truthy(w.refs.watchIdRef)
  THEN [w EXCEPT !.env.watches = {x \in @ : x.id # w.refs.watchIdRef},
                 !.refs.watchIdRef = NULL]
  ELSE w

resetGPSTracking(w) ==
  LET w1 == stopGPSTracking(w)
  IN [w1 EXCEPT !.refs.lastTimestampRef = NULL,
                !.refs.lastPositionRef = NULL,
                !.refs.dataPointsRef = <<>>,
                !.st.gpsStatus = Status("Ready to measure")]

\* startGPSTracking of a render whose handlePosition is hp
startGPSTracking(w, hp) ==
  LET id == FreeWatchId(w)
  IN [w EXCEPT !.env.watches = @ \cup {[id |-> id, hp |-> hp]},
               !.refs.watchIdRef = id,
               !.st.gpsStatus = Status("GPS tracking started")]

(***************************************************************************)
(* useSensorFusion.ts                                                      *)
(***************************************************************************)
AccelerationThreshold == 3

\* an initialisation that keeps the estimator it finds
initializeKalmanFilterKeeps(w) == w

initializeKalmanFilter(w) == [w EXCEPT !.refs.ekfRef = EkfNew]

\* updateKalmanFilter(speedKmh, accelMagnitude, dt): [new estimator, returned speed]
updateKalmanFilter(ekf, speedKmh, accelMagnitude, dtMs) ==
  LET e == EkfUpdate(EkfPredict(ekf, dtMs), speedKmh, accelMagnitude)
  IN [ekf |-> e, speed |-> e.x0]

resetSensorFusion(w) ==
  [w EXCEPT !.refs.waitingForAccelerationRef = FALSE, !.refs.ekfRef = EkfNew]

\* floor of the square root, by bisection
RECURSIVE SqrtBetween(_, _, _)
SqrtBetween(n, lo, hi) ==
  IF lo >= hi THEN lo
  ELSE LET mid == (lo + hi + 1) \div 2
       IN IF mid * mid <= n THEN SqrtBetween(n, mid, hi) ELSE SqrtBetween(n, lo, mid - 1)

ISqrt(n) == SqrtBetween(n, 0, Min(n, 46340))

Magnitude(a) == ISqrt(a.x * a.x + a.y * a.y + a.z * a.z)

(***************************************************************************)
(* SpeedSnap.tsx: handleAccelerationDetected and handleSpeedUpdate, called *)
(* through the closure a registered callback holds.                        *)
(***************************************************************************)
handleAccelerationDetected(w, ad) ==
  IF ad.startTriggered
  THEN LET w1 == [w EXCEPT !.st.isMeasuring = TRUE,
                           !.st.waitingForAcceleration = FALSE,
                           !.st.isRunning = TRUE,
                           !.refs.startTimeRef = w.env.now]
           w2 == resetGPSTracking(initializeKalmanFilter(w1))
       IN startGPSTracking(w2, [snap |-> ad, ad |-> ad])
  ELSE w

MinMotionSpeed == 10

handleSpeedUpdate(w, hp, newSpeed) ==
  LET w1 == [w EXCEPT !.st.speed = newSpeed]
  IN IF hp.snap.waiting /\ newSpeed > MinMotionSpeed /\ hp.snap.startTriggered
     THEN handleAccelerationDetected(w1, hp.ad)
     ELSE w1

handleDataPointAdded(w, dp) == [w EXCEPT !.st.dataPoints = Append(@, dp)]

handleDistanceUpdate(w, d) == [w EXCEPT !.st.distance = @ + d]

(***************************************************************************)
(* useGPSTracking.ts: handlePosition, run with the closure hp that the     *)
(* watch was registered with.  Positions lie on one meridian, in metres,   *)
(* so calculateDistance is the absolute difference.                        *)
(***************************************************************************)
calculateDistance(p1, p2) == Abs(p2 - p1) * 1000

\* the highest speed taken for a vehicle's by the older handlePosition, in dkmh
MaxPlausibleSpeed == 4000

PositionSpeed(w, pos) ==
  LET lastTs == w.refs.lastTimestampRef
      prevPos == w.refs.lastPositionRef
      dt == pos.timestamp - lastTs
  IN IF Truthy(lastTs) /\ Truthy(pos.latitude) /\ prevPos # NULL /\ dt >= 50 /\ dt <= 2000
     THEN (calculateDistance(prevPos, pos.latitude) * 1000) \div dt
     ELSE 0

\* the reconciliation taking the receiver's speed whenever the two agree
ValidatedSpeedPreferReceiver(calculated, gpsSpeed) ==
  IF gpsSpeed # NULL /\ gpsSpeed >= 0
  THEN IF calculated = 0 THEN gpsSpeed
       ELSE IF 8 * Abs(calculated - gpsSpeed) > calculated + gpsSpeed
               /\ calculated + gpsSpeed > 5560
            THEN Min(calculated, gpsSpeed)
            ELSE gpsSpeed
  ELSE calculated

ValidatedSpeed(calculated, gpsSpeed) ==
  IF gpsSpeed # NULL /\ gpsSpeed >= 0
  THEN IF calculated = 0 THEN gpsSpeed
       ELSE IF 8 * Abs(calculated - gpsSpeed) > calculated + gpsSpeed
               /\ calculated + gpsSpeed > 5560
            THEN Min(calculated, gpsSpeed)
            ELSE calculated
  ELSE calculated

DisplaySpeed(recentPoints, speedKmh) ==
  LET outliers == detectOutliers(recentPoints, 25)
      isCurrentOutlier == outliers[Len(outliers)]
  IN IF isCurrentOutlier /\ Len(recentPoints) >= 5
     THEN LET filtered == SGFilter(LastN(recentPoints, 7))
          IN filtered[Len(filtered)].speed
     ELSE speedKmh

handlePosition(w, hp, pos) ==
  LET isRunning == hp.snap.isRunning
      startTime == hp.snap.startTime
      maxAccuracy == IF isRunning THEN 10 ELSE 20
  IN IF Truthy(pos.accuracy) /\ pos.accuracy > maxAccuracy
     THEN [w EXCEPT !.st.gpsStatus = StatusAcc("Poor GPS signal", pos.accuracy)]
     ELSE
       LET timestamp == pos.timestamp
           elapsed == IF Truthy(startTime) THEN w.env.now - startTime ELSE 0
           lastTs == w.refs.lastTimestampRef
           speedMs == ValidatedSpeed(PositionSpeed(w, pos), pos.speed)
           speedKmh == (speedMs * 36) \div 1000
           recentPoints == Append(LastN(w.refs.dataPointsRef, 15),
                                  [time |-> elapsed, speed |-> speedKmh])
           filteredSpeed == DisplaySpeed(recentPoints, speedKmh)
           accelMagnitude == Magnitude(w.refs.accelerometerRef)
           dt == IF Truthy(lastTs) THEN timestamp - lastTs ELSE 100
           w1 == [w EXCEPT !.st.gpsStatus = StatusAcc("GPS tracking", pos.accuracy),
                           !.refs.lastPositionRef = pos.latitude]
           w2 == IF isRunning /\ Truthy(startTime) /\ Truthy(lastTs)
                 THEN handleDistanceUpdate(w1, (speedMs * (timestamp - lastTs)) \div 1000)
                 ELSE w1
           fused == updateKalmanFilter(w.refs.ekfRef, filteredSpeed, accelMagnitude, dt)
           w3 == [w2 EXCEPT !.refs.lastTimestampRef = timestamp,
                            !.refs.ekfRef = fused.ekf]
           finalSpeed == Max(0, fused.speed)
           w4 == handleSpeedUpdate(w3, hp, finalSpeed)
           dataPoint == [time |-> elapsed, speed |-> finalSpeed]
       IN IF isRunning /\ Truthy(startTime)
          THEN handleDataPointAdded([w4 EXCEPT !.refs.dataPointsRef = Append(@, dataPoint)],
                                    dataPoint)
          ELSE w4

(***************************************************************************)
(* DataProcessing.ts: MultiPassInterpolator.  Times in ms, speeds in dkmh. *)
(* The quadratic fit works on times in tenths of a second and solves the   *)
(* normal equations by determinants; its coefficients are kept to          *)
(* hundredths.                                                             *)
(***************************************************************************)
\* floor division for either sign of the divisor
Div(a, b) == IF b < 0 THEN (0 - a) \div (0 - b) ELSE a \div b

RECURSIVE SumSeq(_)
SumSeq(values) == IF values = <<>> THEN 0 ELSE Head(values) + SumSeq(Tail(values))

RECURSIVE Pow(_, _)
Pow(x, k) == IF k = 0 THEN 1 ELSE x * Pow(x, k - 1)

Det3(m) ==
    m[1][1] * (m[2][2] * m[3][3] - m[2][3] * m[3][2])
  - m[1][2] * (m[2][1] * m[3][3] - m[2][3] * m[3][1])
  + m[1][3] * (m[2][1] * m[3][2] - m[2][2] * m[3][1])

ReplaceCol(m, j, b) == [r \in 1..3 |-> [c \in 1..3 |-> IF c = j THEN b[r] ELSE m[r][c]]]

\* solveLinearSystem: the solution as numerators over the common determinant;
\* den = 0 stands for the null returned for a singular matrix
solveLinearSystem(A, B) ==
  IF Det3(A) = 0 THEN [den |-> 0, num |-> <<0, 0, 0>>]
  ELSE [den |-> Det3(A),
        num |-> [j \in 1..3 |-> Det3(ReplaceCol(A, j, B))]]

PolyTimeUnit == 10 * 10
PolyScale == 10 * 10

FirstOf(S) == CHOOSE i \in S : \A j \in S : i <= j
LastOf(S) == CHOOSE i \in S : \A j \in S : i >= j

PolyRange(n, above, below) ==
  [startIdx |-> IF above = {} THEN 1 ELSE Max(1, FirstOf(above) - 2),
   endIdx |-> IF below = {} THEN n ELSE Min(n, LastOf(below) + 2)]

SliceOf(data, range) ==
  IF range.startIdx > range.endIdx THEN <<>>
  ELSE SubSeq(data, range.startIdx, range.endIdx)

\* the points around the target: from two before the first at or above 80 %
\* of it to two after the last at or below 120 %
PolySubset(data, targetSpeed) ==
  SliceOf(data,
          PolyRange(Len(data),
                    {i \in 1..Len(data) : 10 * data[i].speed >= 8 * targetSpeed},
                    {i \in 1..Len(data) : 10 * data[i].speed <= 12 * targetSpeed}))

PolyT(p) == p.time \div PolyTimeUnit

\* the sums of t^k and of speed * t^k over the subset
SumT(subset, k) == SumSeq([i \in 1..Len(subset) |-> Pow(PolyT(subset[i]), k)])
SumST(subset, k) ==
  SumSeq([i \in 1..Len(subset) |-> subset[i].speed * Pow(PolyT(subset[i]), k)])

NormalMatrix(t) == << <<t[1], t[2], t[3]>>, <<t[2], t[3], t[4]>>, <<t[3], t[4], t[5]>> >>

PolyPick(t1, t2, minTime, maxTime) ==
  IF t1 >= minTime /\ t1 <= maxTime THEN t1
  ELSE IF t2 >= minTime /\ t2 <= maxTime THEN t2
  ELSE NULL

\* the roots of a t^2 + b t + c = targetSpeed; with 2a = 0 the quotients are
\* infinite or NaN and lie in no range
PolyRoots(a, b, discriminant, root, minTime, maxTime) ==
  IF discriminant < 0 THEN NULL
  ELSE IF a = 0 THEN NULL
  ELSE PolyPick(Div((root - b) * PolyTimeUnit, 2 * a),
                Div((0 - b - root) * PolyTimeUnit, 2 * a), minTime, maxTime)

PolyDiscriminant(a, b, c, targetSpeed) == b * b - 4 * a * (c - targetSpeed * PolyScale)

PolyQuadratic(a, b, discriminant, minTime, maxTime) ==
  PolyRoots(a, b, discriminant,
            IF discriminant < 0 THEN 0 ELSE ISqrt(discriminant), minTime, maxTime)

PolyCoeffs(coeffs, targetSpeed, minTime, maxTime) ==
  IF coeffs.den = 0 THEN NULL
  ELSE PolyQuadratic(Div(coeffs.num[3] * PolyScale, coeffs.den),
                     Div(coeffs.num[2] * PolyScale, coeffs.den),
                     PolyDiscriminant(Div(coeffs.num[3] * PolyScale, coeffs.den),
                                      Div(coeffs.num[2] * PolyScale, coeffs.den),
                                      Div(coeffs.num[1] * PolyScale, coeffs.den),
                                      targetSpeed),
                     minTime, maxTime)

PolyFit(subset, targetSpeed) ==
  IF Len(subset) < 3 THEN NULL
  ELSE PolyCoeffs(
         solveLinearSystem(
           NormalMatrix(<<Len(subset), SumT(subset, 1), SumT(subset, 2),
                          SumT(subset, 3), SumT(subset, 4)>>),
           <<SumST(subset, 0), SumST(subset, 1), SumST(subset, 2)>>),
         targetSpeed, subset[1].time, subset[Len(subset)].time)

polynomialInterpolation(data, targetSpeed) ==
  IF Len(data) < 3 THEN NULL ELSE PolyFit(PolySubset(data, targetSpeed), targetSpeed)

\* Method 1: the crossings of the target between adjacent points
Crossing(current, next, targetSpeed) ==
  IF /\ \/ (current.speed <= targetSpeed /\ next.speed >= targetSpeed)
        \/ (current.speed >= targetSpeed /\ next.speed <= targetSpeed)
     /\ Abs(next.speed - current.speed) >= 1
  THEN <<current.time + Div((targetSpeed - current.speed) * (next.time - current.time),
                            next.speed - current.speed)>>
  ELSE <<>>

RECURSIVE LinearResults(_, _, _)
LinearResults(data, i, targetSpeed) ==
  IF i >= Len(data) THEN <<>>
  ELSE Crossing(data[i], data[i + 1], targetSpeed) \o LinearResults(data, i + 1, targetSpeed)

\* the lower middle value instead of the mean of the two middle values
MedianOfLower(results) ==
  IF Len(results) = 0 THEN NULL
  ELSE results[(Len(results) + 1) \div 2]

MedianOf(results) ==
  IF Len(results) = 0 THEN NULL
  ELSE IF Len(results) % 2 = 0
       THEN (results[Len(results) \div 2] + results[Len(results) \div 2 + 1]) \div 2
       ELSE results[Len(results) \div 2 + 1]

WithPoly(linear, poly) == IF poly # NULL THEN Append(linear, poly) ELSE linear

FindInSmoothed(smoothedData, targetSpeed) ==
  MedianOf(SortAsc(WithPoly(LinearResults(smoothedData, 1, targetSpeed),
                            IF Len(smoothedData) >= 4
                            THEN polynomialInterpolation(smoothedData, targetSpeed)
                            ELSE NULL)))

FindInCleaned(cleanedData, targetSpeed) ==
  IF Len(cleanedData) < 2 THEN NULL
  ELSE FindInSmoothed(SGFilter(cleanedData), targetSpeed)

findTimeForSpeed(data, targetSpeed) ==
  IF Len(data) < 2 THEN NULL
  ELSE FindInCleaned(removeOutliers(data, 30), targetSpeed)

(***************************************************************************)
(* SpeedSnap.tsx: stopMeasurement and resetMeasurement, run with the       *)
(* closure cl of the render that created them.                             *)
(***************************************************************************)
PostTargets == {<<"0-30", 300>>, <<"0-60", 600>>, <<"0-100", 1000>>,
                <<"0-200", 2000>>, <<"0-250", 2500>>}

PostTargetOf(l) ==
  IF \E pt \in PostTargets : pt[1] = l
  THEN (CHOOSE pt \in PostTargets : pt[1] = l)[2]
  ELSE NULL

OrElse(t, old) == IF t # NULL THEN t ELSE old

PostEntry(old, dataPoints, target) ==
  IF /\ target # NULL
     /\ ~Truthy(old)
     /\ \E i \in 1..Len(dataPoints) : dataPoints[i].speed >= target
  THEN OrElse(findTimeForSpeed(dataPoints, target), old)
  ELSE old

PostProcess(prev, dataPoints) ==
  [l \in Labels |-> PostEntry(prev[l], dataPoints, PostTargetOf(l))]

\* what stopMeasurement does past its guard
StopNow(w, cl) ==
  LET w1 == [w EXCEPT !.st.isMeasuring = FALSE,
                      !.st.startTriggered = FALSE,
                      !.st.isRunning = FALSE,
                      !.st.waitingForAcceleration = FALSE,
                      !.st.speed = 0,
                      !.refs.startTimeRef = NULL]
      w2 == stopGPSTracking(w1)
      w3 == IF Len(cl.dataPoints) >= 4
            THEN [w2 EXCEPT !.st.times = PostProcess(@, cl.dataPoints)]
            ELSE w2
  IN [w3 EXCEPT !.env.saved = @ + 1,
                !.st.gpsStatus = Status("Measurement complete"),
                !.st.hasResults = TRUE]

\* stopMeasurement without its guard
stopMeasurementUnguarded(w, cl) == StopNow(w, cl)

stopMeasurement(w, cl) ==
  IF ~cl.isRunning /\ ~cl.waiting THEN w ELSE StopNow(w, cl)

resetMeasurement(w, cl) ==
  LET w1 == IF cl.isRunning \/ cl.waiting THEN stopMeasurement(w, cl) ELSE w
      w2 == [w1 EXCEPT !.st.startTriggered = FALSE,
                       !.st.isMeasuring = FALSE,
                       !.st.speed = 0,
                       !.st.elapsedTime = 0,
                       !.st.distance = 0,
                       !.st.dataPoints = <<>>,
                       !.st.waitingForAcceleration = FALSE,
                       !.st.times = NoTimes,
                       !.st.hasResults = FALSE]
  IN resetGPSTracking(resetSensorFusion(w2))

(***************************************************************************)
(* SpeedSnap.tsx: the milestone effects.  rst is the state of the render   *)
(* the effect belongs to; the updater reads the latest times.              *)
(***************************************************************************)
SpeedEffect(w, rst) ==
  LET targets == getTargets(units)
  IN [w EXCEPT !.st.times =
        [l \in Labels |->
           IF \E i \in 1..Len(targets.speeds) :
                targets.labels[i] = l /\ rst.speed >= targets.speeds[i] /\ ~Truthy(@[l])
           THEN rst.elapsedTime
           ELSE @[l]]]

\* the distance effect recording the half mile without stopping
DistanceEffectNoStop(w, rst, cl) ==
  LET prev == w.st.times
      quarter == rst.distance >= QuarterMileMm /\ ~Truthy(prev["quarterMile"])
      half == rst.distance >= HalfMileMm /\ ~Truthy(prev["halfMile"])
  IN [w EXCEPT !.st.times =
        [l \in Labels |->
           IF (l = "quarterMile" /\ quarter) \/ (l = "halfMile" /\ half)
           THEN rst.elapsedTime
           ELSE prev[l]]]

DistanceEffect(w, rst, cl) ==
  LET prev == w.st.times
      quarter == rst.distance >= QuarterMileMm /\ ~Truthy(prev["quarterMile"])
      half == rst.distance >= HalfMileMm /\ ~Truthy(prev["halfMile"])
      w1 == [w EXCEPT !.st.times =
               [l \in Labels |->
                  IF (l = "quarterMile" /\ quarter) \/ (l = "halfMile" /\ half)
                  THEN rst.elapsedTime
                  ELSE prev[l]]]
  IN IF half THEN stopMeasurement(w1, cl) ELSE w1

(***************************************************************************)
(* One render and its effects.  prevSt is the state of the previous        *)
(* render.  Without a state change nothing renders and every callback      *)
(* keeps its closure.                                                      *)
(***************************************************************************)
Pass(prevSt, w) ==
  IF w.st = prevSt THEN w
  ELSE
    LET rst == w.st
        r1 == [w EXCEPT !.render.startTime = w.refs.startTimeRef]
        r == IF rst.startTriggered # prevSt.startTriggered
             THEN [r1 EXCEPT !.render.adc = Snap(r1)]
             ELSE r1
        cl == StopClosureOf(r)
        timeOrRun == rst.elapsedTime # prevSt.elapsedTime \/ rst.isRunning # prevSt.isRunning
        e1 == IF rst.waitingForAcceleration # prevSt.waitingForAcceleration
              THEN [r EXCEPT !.refs.waitingForAccelerationRef = rst.waitingForAcceleration]
              ELSE r
        e2 == IF (rst.speed # prevSt.speed \/ timeOrRun) /\ rst.isRunning
              THEN SpeedEffect(e1, rst)
              ELSE e1
    IN IF (rst.distance # prevSt.distance \/ timeOrRun) /\ rst.isRunning
       THEN DistanceEffect(e2, rst, cl)
       ELSE e2

\* renders until no effect changes the state any more
RECURSIVE RenderFrom(_, _, _)
RenderFrom(prevSt, w, n) ==
  IF n = 0 \/ w.st = prevSt THEN w ELSE RenderFrom(w.st, Pass(prevSt, w), n - 1)

Render(old, new) == RenderFrom(old.st, new, 4)

(***************************************************************************)
(* SpeedSnap.tsx: simulateSprint.  The simulation data follow the source's *)
(* curve in steps of 0.1 s; the model cuts the data after SimLength points *)
(* and draws the noise of a point when the point is played.                *)
(***************************************************************************)
SimNoise == {0 - 15, 14}
SimLength == MaxSimTicks + 1
SimStep == 10 * 10

SimCurve(idx) ==
  IF idx <= 20 THEN 25 * idx
  ELSE IF idx <= 60 THEN 500 + (125 * (idx - 20)) \div 10
  ELSE IF idx <= 120 THEN 1000 + (1667 * (idx - 60)) \div 100
  ELSE IF idx <= 180 THEN 2000 + (833 * (idx - 120)) \div 100
  ELSE 2500 + (714 * (idx - 180)) \div 100

SimPoint(idx, noise) ==
  [time |-> idx * SimStep, speed |-> Max(0, Min(SimCurve(idx) + noise, 3000))]

SimTargets == PostTargets

\* one call of animate for the simulation at position i of env.sims
animate(w, i, noise) ==
  LET sim == w.env.sims[i]
      dataPoint == SimPoint(sim.idx, noise)
      elapsed == dataPoint.time
      currentDistance == (dataPoint.speed * elapsed * 10) \div 1296
      prev == w.st.times
  IN [w EXCEPT
        !.st.speed = dataPoint.speed,
        !.st.elapsedTime = dataPoint.time,
        !.st.dataPoints = Append(@, dataPoint),
        !.st.distance = @ + (dataPoint.speed * 25) \div 9,
        !.st.times =
          [l \in Labels |->
             IF \/ \E pt \in SimTargets :
                     pt[1] = l /\ dataPoint.speed >= pt[2] /\ ~Truthy(prev[l])
                \/ l = "quarterMile" /\ currentDistance >= QuarterMileMm /\ ~Truthy(prev[l])
                \/ l = "halfMile" /\ currentDistance >= HalfMileMm /\ ~Truthy(prev[l])
             THEN elapsed
             ELSE prev[l]],
        !.env.sims[i].idx = @ + 1]

simulateSprint(w, cl, noise) ==
  IF cl.isRunning \/ cl.waiting THEN w
  ELSE LET w1 == [w EXCEPT !.st.isRunning = TRUE,
                           !.st.speed = 0,
                           !.st.elapsedTime = 0,
                           !.st.distance = 0,
                           !.st.dataPoints = <<>>,
                           !.st.times = NoTimes,
                           !.st.hasResults = FALSE,
                           !.refs.startTimeRef = w.env.now,
                           !.env.sims = Append(@, [idx |-> 0, stop |-> cl])]
       IN animate(w1, Len(w1.env.sims), noise)

(***************************************************************************)
(* SpeedSnap.tsx: handlePlacementGuideClose, in the two halves around its  *)
(* await of requestGPSPermission, and the mount effect likewise.           *)
(***************************************************************************)
\* the callbacks the rest of the handler holds: initializeSensors' handler
\* for the motion listener and startGPSTracking's handlePosition
GuideClosureOf(w) == [ad |-> w.render.adc, hp |-> HandlePositionOf(w)]

initializeSensors(w, ad) == [w EXCEPT !.env.listeners = Append(@, ad)]

PlacementGuideCloseBegin(w) ==
  [w EXCEPT !.st.showPlacementGuide = FALSE,
            !.env.pending = Append(@, GuideClosureOf(w))]

PlacementGuideCloseGranted(w, k) ==
  LET w1 == initializeKalmanFilter(initializeSensors(w, k.ad))
      w2 == startGPSTracking(w1, k.hp)
  IN [w2 EXCEPT !.st.startTriggered = TRUE,
                !.st.waitingForAcceleration = TRUE,
                !.refs.waitingForAccelerationRef = TRUE,
                !.st.speed = 0,
                !.st.elapsedTime = 0,
                !.st.distance = 0,
                !.st.dataPoints = <<>>,
                !.st.times = NoTimes,
                !.st.hasResults = FALSE,
                !.st.gpsStatus = Status("Dragy mode ready")]

\* a denial after which the orchestrator waits for the launch all the same
PermissionDeniedArms(w) ==
  [w EXCEPT !.st.gpsStatus = Status("GPS permission denied"),
            !.st.startTriggered = TRUE,
            !.st.waitingForAcceleration = TRUE]

PermissionDenied(w) == [w EXCEPT !.st.gpsStatus = Status("GPS permission denied")]

\* the motion listeners in the order they were registered, on one event
RECURSIVE MotionListeners(_, _, _)
MotionListeners(w, i, a) ==
  IF i > Len(w.env.listeners) THEN w
  ELSE LET w1 == [w EXCEPT !.refs.accelerometerRef = a]
           w2 == IF w1.refs.waitingForAccelerationRef
                    /\ a.x * a.x + a.y * a.y + a.z * a.z
                         > AccelerationThreshold * AccelerationThreshold
                 THEN handleAccelerationDetected(
                        [w1 EXCEPT !.refs.waitingForAccelerationRef = FALSE],
                        w.env.listeners[i])
                 ELSE w1
       IN MotionListeners(w2, i + 1, a)

RemoveAt(seq, i) == SubSeq(seq, 1, i - 1) \o SubSeq(seq, i + 1, Len(seq))

(***************************************************************************)
(* ButterworthFilter.ts.  Accelerations in mm/s^2; the coefficients are    *)
(* what calculateCoefficients yields for the three IMUFilters statics, as  *)
(* ten-thousandths.                                                        *)
(***************************************************************************)
FScale == 100 * 100

\* ButterworthFilter(2, 0.5, 60, 'highpass') and ButterworthFilter(2, 8, 60, 'lowpass')
HighPass == [b |-> <<9637, 0 - 19273, 9637>>, a |-> <<10000, 0 - 19260, 9286>>]
LowPass == [b |-> <<1084, 2169, 1084>>, a |-> <<10000, 0 - 8773, 3111>>]

AxisNew == [h |-> <<0, 0, 0>>, o |-> <<0, 0>>]
initializeHistory == [x |-> AxisNew, y |-> AxisNew, z |-> AxisNew]

\* a reset() that leaves the histories as they are
ButterworthResetKeeps(state) == state

\* a reset() that zero-fills the input histories only
ButterworthResetInputsOnly(state) ==
  [x |-> [state.x EXCEPT !.h = AxisNew.h],
   y |-> [state.y EXCEPT !.h = AxisNew.h],
   z |-> [state.z EXCEPT !.h = AxisNew.h]]

\* ButterworthFilter.reset
ButterworthReset(state) == initializeHistory

AxisOutput(coef, h, o) ==
  (coef.b[1] * h[1] + coef.b[2] * h[2] + coef.b[3] * h[3]
     - coef.a[2] * o[1] - coef.a[3] * o[2]) \div FScale

AxisShift(h, o, output) == [h |-> h, o |-> <<output, o[1]>>]

AxisStep(coef, h, o) == AxisShift(h, o, AxisOutput(coef, h, o))

\* filterAxis: the axis' histories after the sample; the output is o[1]
filterAxis(coef, axis, input) == AxisStep(coef, <<input, axis.h[1], axis.h[2]>>, axis.o)

\* ButterworthFilter.filter: the filter's state after the sample
filter(coef, state, data) ==
  [x |-> filterAxis(coef, state.x, data.x),
   y |-> filterAxis(coef, state.y, data.y),
   z |-> filterAxis(coef, state.z, data.z)]

FilterOutput(state) == [x |-> state.x.o[1], y |-> state.y.o[1], z |-> state.z.o[1]]

IMUFiltersNew == [accelerationHighPass |-> initializeHistory,
                  accelerationLowPass |-> initializeHistory]

LowPassAfter(highPass, lowPass) ==
  [accelerationHighPass |-> highPass,
   accelerationLowPass |-> filter(LowPass, lowPass, FilterOutput(highPass))]

\* IMUFilters.filterAcceleration: the statics after the sample; the result
\* is the low-pass filter's output
filterAcceleration(filters, data) ==
  LowPassAfter(filter(HighPass, filters.accelerationHighPass, data),
               filters.accelerationLowPass)

(***************************************************************************)
(* LaunchDetector (launch detection logic).  Speeds in dkmh, times in ms.  *)
(***************************************************************************)
DefaultConfig(enableFiltering) ==
  [horizontalAccelThreshold |-> 2000, verticalAccelLimit |-> 3000,
   speedThreshold |-> 30, sustainedDurationMs |-> 250, samplingRateHz |-> 60,
   enableFiltering |-> enableFiltering]

LaunchDetectorNew(config) ==
  [config |-> config, accelerationHistory |-> <<>>, filteredHistory |-> <<>>,
   lastProcessedTime |-> 0, isLaunchDetected |-> FALSE, launchStartTime |-> NULL]

\* reset leaving the history buffers as they are
resetKeepsHistory(det) ==
  [det EXCEPT !.isLaunchDetected = FALSE, !.launchStartTime = NULL]

reset(det) ==
  [det EXCEPT !.isLaunchDetected = FALSE, !.launchStartTime = NULL,
              !.accelerationHistory = <<>>, !.filteredHistory = <<>>]

isLaunched(det) == det.isLaunchDetected

\* Qualifying without the limit on the vertical acceleration
QualifyingAnyVertical(config, acceleration, currentSpeedKmh) ==
  /\ acceleration.x * acceleration.x + acceleration.y * acceleration.y
       > config.horizontalAccelThreshold * config.horizontalAccelThreshold
  /\ currentSpeedKmh < config.speedThreshold

Qualifying(config, acceleration, currentSpeedKmh) ==
  /\ acceleration.x * acceleration.x + acceleration.y * acceleration.y
       > config.horizontalAccelThreshold * config.horizontalAccelThreshold
  /\ Abs(acceleration.z) < config.verticalAccelLimit
  /\ currentSpeedKmh < config.speedThreshold

\* checkLaunchConditions keeping the candidate's start over a sample that
\* does not qualify
checkLaunchConditionsNoRestart(det, acceleration, currentSpeedKmh, now) ==
  IF Qualifying(det.config, acceleration, currentSpeedKmh)
  THEN IF ~Truthy(det.launchStartTime)
       THEN [det |-> [det EXCEPT !.launchStartTime = now], ret |-> det.isLaunchDetected]
       ELSE IF now - det.launchStartTime >= det.config.sustainedDurationMs
               /\ ~det.isLaunchDetected
            THEN [det |-> [det EXCEPT !.isLaunchDetected = TRUE], ret |-> TRUE]
            ELSE [det |-> det, ret |-> det.isLaunchDetected]
  ELSE [det |-> det, ret |-> det.isLaunchDetected]

\* checkLaunchConditions dropping the confirmation on a sample that does not
\* qualify
checkLaunchConditionsUnlatched(det, acceleration, currentSpeedKmh, now) ==
  IF Qualifying(det.config, acceleration, currentSpeedKmh)
  THEN IF ~Truthy(det.launchStartTime)
       THEN [det |-> [det EXCEPT !.launchStartTime = now], ret |-> det.isLaunchDetected]
       ELSE IF now - det.launchStartTime >= det.config.sustainedDurationMs
               /\ ~det.isLaunchDetected
            THEN [det |-> [det EXCEPT !.isLaunchDetected = TRUE], ret |-> TRUE]
            ELSE [det |-> det, ret |-> det.isLaunchDetected]
  ELSE [det |-> [det EXCEPT !.launchStartTime = NULL, !.isLaunchDetected = FALSE],
        ret |-> FALSE]

\* [det, ret]: the detector after the call and the value returned
checkLaunchConditions(det, acceleration, currentSpeedKmh, now) ==
  IF Qualifying(det.config, acceleration, currentSpeedKmh)
  THEN IF ~Truthy(det.launchStartTime)
       THEN [det |-> [det EXCEPT !.launchStartTime = now], ret |-> det.isLaunchDetected]
       ELSE IF now - det.launchStartTime >= det.config.sustainedDurationMs
               /\ ~det.isLaunchDetected
            THEN [det |-> [det EXCEPT !.isLaunchDetected = TRUE], ret |-> TRUE]
            ELSE [det |-> det, ret |-> det.isLaunchDetected]
  ELSE [det |-> [det EXCEPT !.launchStartTime = NULL], ret |-> det.isLaunchDetected]

CapHistory(history, cap) == IF Len(history) > cap THEN Tail(history) ELSE history

\* the histories after the pushes, then shortened to two seconds of samples
PushHistories(det, acceleration, processedAccel) ==
  IF Len(det.accelerationHistory) + 1 > det.config.samplingRateHz * 2
  THEN [det EXCEPT
          !.accelerationHistory = Tail(Append(@, acceleration)),
          !.filteredHistory =
            IF det.config.enableFiltering
            THEN CapHistory(Append(@, processedAccel), det.config.samplingRateHz * 2)
            ELSE @]
  ELSE [det EXCEPT
          !.accelerationHistory = Append(@, acceleration),
          !.filteredHistory =
            IF det.config.enableFiltering THEN Append(@, processedAccel) ELSE @]

Outcome(res, filters, accel) ==
  [det |-> res.det, ret |-> res.ret, filters |-> filters, accel |-> accel]

ProcessAccepted(det, filters, acceleration, processedAccel, currentSpeedKmh, now) ==
  Outcome(checkLaunchConditions(PushHistories(det, acceleration, processedAccel),
                                processedAccel, currentSpeedKmh, now),
          filters, processedAccel)

ProcessFiltered(det, filters, acceleration, currentSpeedKmh, now) ==
  ProcessAccepted(det, filters, acceleration,
                  FilterOutput(filters.accelerationLowPass), currentSpeedKmh, now)

\* processData without the minimum interval between samples
processDataUnlimited(det, filters, acceleration, currentSpeedKmh, now) ==
  IF currentSpeedKmh > det.config.speedThreshold
  THEN [det |-> reset([det EXCEPT !.lastProcessedTime = now]), ret |-> FALSE,
        filters |-> filters, accel |-> acceleration]
  ELSE IF det.config.enableFiltering
  THEN ProcessFiltered([det EXCEPT !.lastProcessedTime = now],
                       filterAcceleration(filters, acceleration),
                       acceleration, currentSpeedKmh, now)
  ELSE ProcessAccepted([det EXCEPT !.lastProcessedTime = now], filters, acceleration,
                       acceleration, currentSpeedKmh, now)

\* processData with Date.now() = now: [det, ret] as above, the IMUFilters
\* statics after the call, and the acceleration the conditions were checked on
processData(det, filters, acceleration, currentSpeedKmh, now) ==
  IF (now - det.lastProcessedTime) * det.config.samplingRateHz < 1000
  THEN [det |-> det, ret |-> det.isLaunchDetected, filters |-> filters,
        accel |-> acceleration]
  ELSE IF currentSpeedKmh > det.config.speedThreshold
  THEN [det |-> reset([det EXCEPT !.lastProcessedTime = now]), ret |-> FALSE,
        filters |-> filters, accel |-> acceleration]
  ELSE IF det.config.enableFiltering
  THEN ProcessFiltered([det EXCEPT !.lastProcessedTime = now],
                       filterAcceleration(filters, acceleration),
                       acceleration, currentSpeedKmh, now)
  ELSE ProcessAccepted([det EXCEPT !.lastProcessedTime = now], filters, acceleration,
                       acceleration, currentSpeedKmh, now)

(***************************************************************************)
(* Inputs of the platform.                                                 *)
(***************************************************************************)
ClockStart == 10 * 100
ClockStep == 10 * 10

Fix(acc, ts, lat, spd) == [accuracy |-> acc, timestamp |-> ts, latitude |-> lat, speed |-> spd]

\* accuracy in m, timestamp in ms, latitude in m along the meridian, reported
\* speed in mm/s or null; one fix is 40 s later than the others, one is 60 m
\* away from them
Fixes == {Fix(5, 1000, 1, 20000), Fix(5, 1100, 3, NULL), Fix(5, 41100, 1, 20000),
          Fix(15, 1100, 1, 20000), Fix(25, 1100, 3, NULL), Fix(5, 1100, 61, NULL)}

MotionSamples == {[x |-> 0, y |-> 0, z |-> 0], [x |-> 4, y |-> 0, z |-> 0]}

(***************************************************************************)
(* The launch detector on its own: calls of processData at chosen clock    *)
(* distances, and reset() by its owner.  obs records, for the period since *)
(* the last reset(), what the calls returned and what they were given.     *)
(***************************************************************************)
LdClockStart == 100 * 1000
LdSteps == {10, 20, 250}

LdInput(x, z, speed) == [acceleration |-> [x |-> x, y |-> 0, z |-> z], speed |-> speed]

\* a strong forward push at rest, a weak one, a strong one with the phone
\* lifted, a strong one while already moving
LdInputs == {LdInput(3000, 0, 0), LdInput(1000, 0, 0), LdInput(3000, 4000, 0),
             LdInput(3000, 0, 50)}

NoObs == [trues |-> 0, processed |-> 0, first |-> NULL, weakOnly |-> TRUE,
          qualSince |-> NULL, confirmAt |-> NULL, confirmSince |-> NULL,
          lastRet |-> FALSE, zeroSpeed |-> TRUE]

LdStart(enableFiltering) ==
  [det |-> LaunchDetectorNew(DefaultConfig(enableFiltering)),
   filters |-> IMUFiltersNew, now |-> LdClockStart, obs |-> NoObs,
   calls |-> 0, resets |-> 0]

\* lab when no utility class is run on its own
NoLab == [op |-> "none"]

(***************************************************************************)
(* The state after the first render and the synchronous part of the mount  *)
(* effect: the permission request is pending, the estimator exists.        *)
(***************************************************************************)
InitialSnap == [isRunning |-> FALSE, startTime |-> NULL, waiting |-> FALSE,
                startTriggered |-> FALSE]

InitialWorld ==
  [st |-> [isRunning |-> FALSE, startTriggered |-> FALSE, isMeasuring |-> FALSE,
           waitingForAcceleration |-> FALSE, speed |-> 0, elapsedTime |-> 0,
           distance |-> 0, times |-> NoTimes, dataPoints |-> <<>>,
           hasResults |-> FALSE, showPlacementGuide |-> FALSE,
           gpsStatus |-> Status("Requesting permissions")],
   refs |-> [startTimeRef |-> NULL, watchIdRef |-> NULL, lastTimestampRef |-> NULL,
             lastPositionRef |-> NULL, dataPointsRef |-> <<>>,
             waitingForAccelerationRef |-> FALSE,
             accelerometerRef |-> [x |-> 0, y |-> 0, z |-> 0],
             ekfRef |-> EkfNew],
   render |-> [startTime |-> NULL, adc |-> InitialSnap],
   env |-> [now |-> ClockStart, watches |-> {}, listeners |-> <<>>,
            pending |-> <<>>, mount |-> "pending", sims |-> <<>>, saved |-> 0,
            fixes |-> 0, motions |-> 0, ticks |-> 0, arms |-> 0,
            simsStarted |-> 0, events |-> 0]]

Starts(w) ==
  /\ st = w.st
  /\ refs = w.refs
  /\ render = w.render
  /\ env = w.env

OrchestratorInit == Starts(InitialWorld)

Init ==
  /\ units \in {"kmh", "mph"}
  /\ OrchestratorInit
  /\ ld = LdStart(TRUE)
  /\ lab = NoLab

Becomes(w) ==
  /\ st' = w.st
  /\ refs' = w.refs
  /\ render' = w.render
  /\ env' = w.env

Commit(w) ==
  /\ Becomes(w)
  /\ UNCHANGED <<units, ld, lab>>

\* a handler's result, the renders it causes, and their effects
After(old, w) == Render(old, [w EXCEPT !.env.events = @ + 1])

Handled(w) ==
  /\ env.events < MaxEvents
  /\ Commit(After(World, w))

ButtonsReachable == ~st.showPlacementGuide

\* the mount effect after its permission request was granted
Mounted(w) ==
  [initializeSensors(w, InitialSnap) EXCEPT
     !.env.mount = "done",
     !.st.gpsStatus = Status("GPS ready, motion sensors active")]

MountGranted ==
  /\ env.mount = "pending"
  /\ Handled(Mounted(World))

MountDenied ==
  /\ env.mount = "pending"
  /\ Handled([PermissionDenied(World) EXCEPT !.env.mount = "done"])

startMeasurement(w) == [w EXCEPT !.st.showPlacementGuide = TRUE]

handlePlacementGuideClose(w) == [PlacementGuideCloseBegin(w) EXCEPT !.env.arms = @ + 1]

StartMeasurement ==
  /\ ButtonsReachable
  /\ st.gpsStatus.s # "Requesting permissions"
  /\ ~(st.isRunning \/ st.waitingForAcceleration)
  /\ Handled(startMeasurement(World))

PlacementGuideClose ==
  /\ st.showPlacementGuide
  /\ env.arms < MaxArms
  /\ Handled(handlePlacementGuideClose(World))

ArmGranted ==
  \E i \in 1..Len(env.pending) :
    Handled(PlacementGuideCloseGranted(
              [World EXCEPT !.env.pending = RemoveAt(@, i)], env.pending[i]))

ArmDenied ==
  \E i \in 1..Len(env.pending) :
    Handled(PermissionDenied([World EXCEPT !.env.pending = RemoveAt(@, i)]))

StopClick ==
  /\ ButtonsReachable
  /\ st.gpsStatus.s # "Requesting permissions"
  /\ st.isRunning \/ st.waitingForAcceleration
  /\ Handled(stopMeasurement(World, StopClosureOf(World)))

ResetClick ==
  /\ ButtonsReachable
  /\ ~st.isRunning
  /\ Handled(resetMeasurement(World, StopClosureOf(World)))

SimulateClick ==
  /\ ButtonsReachable
  /\ ~(st.isRunning \/ st.waitingForAcceleration)
  /\ env.simsStarted < MaxSims
  /\ \E noise \in SimNoise :
       Handled(simulateSprint([World EXCEPT !.env.simsStarted = @ + 1],
                              StopClosureOf(World), noise))

SimTick ==
  \E i \in 1..Len(env.sims) : \E noise \in SimNoise :
    /\ env.sims[i].idx < SimLength
    /\ Handled(animate(World, i, noise))

\* the last call of animate and the timeout it sets: stopMeasurement of the
\* render in which the simulation was started
SimComplete ==
  \E i \in 1..Len(env.sims) :
    /\ env.sims[i].idx >= SimLength
    /\ Handled(stopMeasurement([World EXCEPT !.env.sims = RemoveAt(@, i)],
                               env.sims[i].stop))

\* the platform delivers the position pos to the callback of the watch x
GpsFixOf(x, pos) ==
  /\ env.fixes < MaxFixes
  /\ Handled(handlePosition([World EXCEPT !.env.fixes = @ + 1], x.hp, pos))

GpsFix == \E x \in env.watches : \E pos \in Fixes : GpsFixOf(x, pos)

MotionEvent ==
  /\ env.motions < MaxMotion
  /\ env.listeners # <<>>
  /\ \E a \in MotionSamples :
       Handled(MotionListeners([World EXCEPT !.env.motions = @ + 1], 1, a))

updateTimer ==
  /\ st.isMeasuring
  /\ Truthy(refs.startTimeRef)
  /\ Handled([World EXCEPT !.st.elapsedTime = env.now - refs.startTimeRef])

Tick ==
  /\ env.ticks < MaxClock
  /\ Handled([World EXCEPT !.env.now = @ + ClockStep, !.env.ticks = @ + 1])

Next ==
  \/ MountGranted
  \/ MountDenied
  \/ StartMeasurement
  \/ PlacementGuideClose
  \/ ArmGranted
  \/ ArmDenied
  \/ StopClick
  \/ ResetClick
  \/ SimulateClick
  \/ SimTick
  \/ SimComplete
  \/ GpsFix
  \/ MotionEvent
  \/ updateTimer
  \/ Tick

Spec == Init /\ [][Next]_vars

(***************************************************************************)
(* useGPSTracking on its own: the hook rendered once with the props        *)
(* isRunning and startTime, its watch delivering fixes to the              *)
(* handlePosition of that render.  lab records what the last call computed *)
(* from its fix.                                                           *)
(***************************************************************************)
MaxTrackerFixes == 2

TrackerFixes ==
  {Fix(5, ts, lat, spd) : ts \in {1000, 1100, 1200, 3000}, lat \in {1, 2, 4},
                          spd \in {NULL, 0, 1000, 10000, 12000}}

TrackerProps(isRunning) ==
  [isRunning |-> isRunning,
   startTime |-> IF isRunning THEN ClockStart ELSE NULL,
   waiting |-> FALSE,
   startTriggered |-> isRunning]

TrackerStart(isRunning) ==
  [op |-> "tracker",
   hp |-> [snap |-> TrackerProps(isRunning), ad |-> TrackerProps(isRunning)],
   calls |-> 0, calculated |-> 0, gpsSpeed |-> NULL, speedMs |-> 0]

TrackerFix(pos) ==
  /\ lab.calls < MaxTrackerFixes
  /\ Becomes(handlePosition(World, lab.hp, pos))
  /\ lab' = [lab EXCEPT !.calls = @ + 1,
                        !.calculated = PositionSpeed(World, pos),
                        !.gpsSpeed = pos.speed,
                        !.speedMs = ValidatedSpeed(PositionSpeed(World, pos), pos.speed)]
  /\ UNCHANGED <<units, ld>>

TrackerDeliver == \E pos \in TrackerFixes : TrackerFix(pos)

InitGPS ==
  /\ units = "kmh"
  /\ OrchestratorInit
  /\ ld = LdStart(TRUE)
  /\ lab \in {TrackerStart(isRunning) : isRunning \in BOOLEAN}

NextGPS ==
  \/ TrackerDeliver
  \/ Tick

SpecGPS == InitGPS /\ [][NextGPS]_vars

(***************************************************************************)
(* The orchestrator with a stopped simulation still playing: the app has   *)
(* mounted, Start was clicked, the placement guide was dismissed (its      *)
(* permission request is pending), a simulation was started and Stop was   *)
(* clicked.  animate keeps calling itself after the stop.  From here the   *)
(* model explores MaxArmingEvents events.                                  *)
(***************************************************************************)
MaxArmingEvents == 7

GuideClosed ==
  LET mounted == After(InitialWorld, Mounted(InitialWorld))
      started == After(mounted, startMeasurement(mounted))
  IN After(started, handlePlacementGuideClose(started))

StoppedSimulation(noise) ==
  LET closed == GuideClosed
      sim == After(closed, simulateSprint([closed EXCEPT !.env.simsStarted = @ + 1],
                                          StopClosureOf(closed), noise))
  IN After(sim, stopMeasurement(sim, StopClosureOf(sim)))

SimulationStopped(noise) ==
  [StoppedSimulation(noise) EXCEPT !.env.events = MaxEvents - MaxArmingEvents]

\* km/h units; the stopped simulation drew the larger noise for its first point
InitArming ==
  /\ units = "kmh"
  /\ Starts(SimulationStopped(CHOOSE n \in SimNoise : \A other \in SimNoise : n >= other))
  /\ ld = LdStart(TRUE)
  /\ lab = NoLab

NextArming ==
  \/ StartMeasurement
  \/ PlacementGuideClose
  \/ ArmGranted
  \/ ArmDenied
  \/ StopClick
  \/ ResetClick
  \/ SimulateClick
  \/ SimTick
  \/ SimComplete
  \/ GpsFix
  \/ MotionEvent
  \/ updateTimer
  \/ Tick

SpecArming == InitArming /\ [][NextArming]_vars

(***************************************************************************)
(* The orchestrator armed over the stopped simulation: the pending         *)
(* permission was granted (results and trace cleared, waiting for the      *)
(* launch) and the stopped simulation has gone on playing n points into    *)
(* the new trace.  From here the model explores MaxStoppingEvents events.  *)
(***************************************************************************)
MaxStoppingEvents == 3
PlayedPoints == {9, 10}

\* n further calls of animate for the first simulation
RECURSIVE Played(_, _, _)
Played(w, n, noise) ==
  IF n = 0 THEN w
  ELSE IF n = 1 THEN After(w, animate(w, 1, noise))
  ELSE CHOOSE played \in {Played(half, n - n \div 2, noise) :
                            half \in {Played(w, n \div 2, noise)}} : TRUE

\* the pending permission request of w is granted
Armed(w) ==
  After(w, PlacementGuideCloseGranted([w EXCEPT !.env.pending = RemoveAt(@, 1)],
                                      w.env.pending[1]))

InitStopping ==
  /\ units \in {"kmh", "mph"}
  /\ \E n \in PlayedPoints : \E noise \in SimNoise :
       \E stopped \in {StoppedSimulation(noise)} :
         \E armed \in {Armed(stopped)} :
           \E played \in {Played(armed, n, noise)} :
             Starts([played EXCEPT !.env.events = MaxEvents - MaxStoppingEvents])
  /\ ld = LdStart(TRUE)
  /\ lab = NoLab

(***************************************************************************)
(* The simulation played in full: simulateSprint builds FullSimLength      *)
(* points, and the model starts after n of them were played, shortly       *)
(* before the distance reaches the half mile or shortly before the last    *)
(* point.  From there it explores MaxHalfMileEvents events.                *)
(***************************************************************************)
MaxHalfMileEvents == 5
FullSimLength == 250
HalfMilePoints == {189, 246}

FullSimTick ==
  \E i \in 1..Len(env.sims) : \E noise \in SimNoise :
    /\ env.sims[i].idx < FullSimLength
    /\ Handled(animate(World, i, noise))

FullSimComplete ==
  \E i \in 1..Len(env.sims) :
    /\ env.sims[i].idx >= FullSimLength
    /\ Handled(stopMeasurement([World EXCEPT !.env.sims = RemoveAt(@, i)],
                               env.sims[i].stop))

\* the simulation started from the mounted orchestrator
Simulating(w, noise) ==
  After(w, simulateSprint([w EXCEPT !.env.simsStarted = @ + 1], StopClosureOf(w), noise))

InitHalfMile ==
  /\ units \in {"kmh", "mph"}
  /\ \E n \in HalfMilePoints : \E noise \in SimNoise :
       \E mounted \in {After(InitialWorld, Mounted(InitialWorld))} :
         \E sim \in {Simulating(mounted, noise)} :
           \E played \in {Played(sim, n, noise)} :
             Starts([played EXCEPT !.env.events = MaxEvents - MaxHalfMileEvents])
  /\ ld = LdStart(TRUE)
  /\ lab = NoLab

NextHalfMile ==
  \/ FullSimTick
  \/ FullSimComplete
  \/ StopClick
  \/ ResetClick
  \/ Tick

SpecHalfMile == InitHalfMile /\ [][NextHalfMile]_vars

NextStopping ==
  \/ StopClick
  \/ ResetClick
  \/ SimComplete
  \/ GpsFix
  \/ MotionEvent
  \/ Tick

SpecStopping == InitStopping /\ [][NextStopping]_vars

(***************************************************************************)
(* The launch detector's steps.                                            *)
(***************************************************************************)
\* what one call adds to the record: processed is whether the call passed
\* the rate limit, accel the acceleration its conditions were checked on
Observe(obs, config, wasDetected, out, speed, now, processed) ==
  IF ~processed
  THEN [obs EXCEPT !.trues = @ + (IF out.ret THEN 1 ELSE 0), !.lastRet = out.ret,
                   !.zeroSpeed = @ /\ speed = 0]
  ELSE [trues |-> obs.trues + (IF out.ret THEN 1 ELSE 0),
        processed |-> obs.processed + 1,
        first |-> IF obs.first = NULL THEN now ELSE obs.first,
        weakOnly |->
          /\ obs.weakOnly
          /\ \/ out.accel.x * out.accel.x + out.accel.y * out.accel.y
                  <= config.horizontalAccelThreshold * config.horizontalAccelThreshold
             \/ Abs(out.accel.z) >= config.verticalAccelLimit,
        qualSince |->
          IF /\ out.accel.x * out.accel.x + out.accel.y * out.accel.y
                  > config.horizontalAccelThreshold * config.horizontalAccelThreshold
             /\ Abs(out.accel.z) < config.verticalAccelLimit
             /\ speed < config.speedThreshold
          THEN IF obs.qualSince = NULL THEN now ELSE obs.qualSince
          ELSE NULL,
        confirmAt |-> IF out.det.isLaunchDetected /\ ~wasDetected THEN now
                      ELSE obs.confirmAt,
        confirmSince |-> IF out.det.isLaunchDetected /\ ~wasDetected THEN obs.qualSince
                         ELSE obs.confirmSince,
        lastRet |-> out.ret,
        zeroSpeed |-> obs.zeroSpeed /\ speed = 0]

LdAfter(l, out, speed, now) ==
  [det |-> out.det, filters |-> out.filters, now |-> now,
   obs |-> Observe(l.obs, l.det.config, l.det.isLaunchDetected, out, speed, now,
                   out.det.lastProcessedTime = now),
   calls |-> l.calls + 1, resets |-> l.resets]

\* processData(in.acceleration, in.speed) called d ms after the last call
LdCall(d, in) ==
  /\ ld.calls < MaxLdCalls
  /\ ld' = LdAfter(ld,
                   processData(ld.det, ld.filters, in.acceleration, in.speed, ld.now + d),
                   in.speed, ld.now + d)
  /\ UNCHANGED <<ovars, lab>>

LdProcessData == \E d \in LdSteps : \E in \in LdInputs : LdCall(d, in)

LdReset ==
  /\ ld.resets < MaxLdResets
  /\ ld' = [ld EXCEPT !.det = reset(@), !.obs = NoObs, !.resets = @ + 1]
  /\ UNCHANGED <<ovars, lab>>

InitLD ==
  /\ units = "kmh"
  /\ OrchestratorInit
  /\ ld \in {LdStart(enableFiltering) : enableFiltering \in BOOLEAN}
  /\ lab = NoLab

NextLD ==
  \/ LdProcessData
  \/ LdReset

SpecLD == InitLD /\ [][NextLD]_vars

(***************************************************************************)
(* The launch detector beside a twin: at every reset() lab becomes a newly *)
(* constructed detector with the same configuration, in a process whose    *)
(* IMUFilters statics are those of the moment, and from then on every call *)
(* is made on both with the same arguments at the same Date.now().         *)
(***************************************************************************)
MaxTwinCalls == 4
TwinSteps == {10, 250}
TwinInputs == {LdInput(3000, 0, 0), LdInput(1000, 0, 0)}

TwinStart(l) ==
  [op |-> "twin", det |-> LaunchDetectorNew(l.det.config), filters |-> l.filters,
   ret |-> FALSE, calls |-> 0]

TwinAfter(twin, out) ==
  [twin EXCEPT !.det = out.det, !.filters = out.filters, !.ret = out.ret,
               !.calls = @ + 1]

TwinCall(d, in) ==
  /\ ld.calls < MaxTwinCalls
  /\ ld' = LdAfter(ld,
                   processData(ld.det, ld.filters, in.acceleration, in.speed, ld.now + d),
                   in.speed, ld.now + d)
  /\ lab' = IF lab.op = "twin"
            THEN TwinAfter(lab, processData(lab.det, lab.filters, in.acceleration,
                                            in.speed, ld.now + d))
            ELSE lab
  /\ UNCHANGED ovars

TwinProcessData == \E d \in TwinSteps : \E in \in TwinInputs : TwinCall(d, in)

TwinReset ==
  /\ ld.resets < MaxLdResets
  /\ ld' = [ld EXCEPT !.det = reset(@), !.obs = NoObs, !.resets = @ + 1]
  /\ lab' = TwinStart(ld)
  /\ UNCHANGED ovars

InitTwin ==
  /\ units = "kmh"
  /\ OrchestratorInit
  /\ ld \in {LdStart(enableFiltering) : enableFiltering \in BOOLEAN}
  /\ lab = NoLab

NextTwin ==
  \/ TwinProcessData
  \/ TwinReset

SpecTwin == InitTwin /\ [][NextTwin]_vars

(***************************************************************************)
(* The fusion hook's accelerometer listener in front of the launch         *)
(* detector: it filters the raw sample with IMUFilters and hands the       *)
(* result to processData, which filters again.  lab.own is a filter pair   *)
(* that sees only the samples the detector itself filters, lab.expected    *)
(* its output and lab.seen the acceleration the detector checked.          *)
(***************************************************************************)
MaxListenerCalls == 4
ListenerSteps == {10, 20}
ListenerSamples == {[x |-> 3000, y |-> 0, z |-> 1000], [x |-> 0 - 500, y |-> 200, z |-> 0]}
ListenerSpeeds == {0, 50}

SharedStart ==
  [op |-> "shared", own |-> IMUFiltersNew, processed |-> FALSE,
   seen |-> [x |-> 0, y |-> 0, z |-> 0], expected |-> [x |-> 0, y |-> 0, z |-> 0]]

\* the detector filtered the sample it was given
Filtered(det, out, speed, now) ==
  /\ out.det.lastProcessedTime = now
  /\ det.lastProcessedTime # now
  /\ speed <= det.config.speedThreshold
  /\ det.config.enableFiltering

SharedAfter(s, own, processed, out) ==
  [s EXCEPT !.own = IF processed THEN own ELSE @,
            !.processed = processed,
            !.seen = out.accel,
            !.expected = FilterOutput(own.accelerationLowPass)]

\* the listener on one 'accel' event d ms after the last, fused speed given
ListenerCall(d, raw, speed, hooked) ==
  /\ ld.calls < MaxListenerCalls
  /\ \E out \in {processData(ld.det, hooked, FilterOutput(hooked.accelerationLowPass),
                               speed, ld.now + d)} :
       /\ ld' = LdAfter(ld, out, speed, ld.now + d)
       /\ lab' = SharedAfter(lab,
                             filterAcceleration(lab.own,
                                                FilterOutput(hooked.accelerationLowPass)),
                             Filtered(ld.det, out, speed, ld.now + d), out)
  /\ UNCHANGED ovars

AccelListener ==
  \E d \in ListenerSteps : \E raw \in ListenerSamples : \E speed \in ListenerSpeeds :
    ListenerCall(d, raw, speed, filterAcceleration(ld.filters, raw))

SharedReset ==
  /\ ld.resets < MaxLdResets
  /\ ld' = [ld EXCEPT !.det = reset(@), !.obs = NoObs, !.resets = @ + 1]
  /\ UNCHANGED <<ovars, lab>>

InitShared ==
  /\ units = "kmh"
  /\ OrchestratorInit
  /\ ld = LdStart(TRUE)
  /\ lab = SharedStart

NextShared ==
  \/ AccelListener
  \/ SharedReset

SpecShared == InitShared /\ [][NextShared]_vars

(***************************************************************************)
(* An ExtendedKalmanFilter on its own, fed one measurement [v, a] again    *)
(* and again: predict(dt), update([v, a]), predict(dt), ...  Speeds in     *)
(* 0.001 km/h, accelerations in mm/s^2, dt in ms.  before is the filter    *)
(* as the last predict found it.                                           *)
(***************************************************************************)
MaxEkfUpdates == 130
EkfEps == 2 * 1000
EkfSpeeds == {0, 60 * 1000, 250 * 1000}
EkfAccels == {0, 2000}
EkfDts == {0 - 100, 0, 100, 2000}

EkfStart(v, a, dt) ==
  [op |-> "ekf", ekf |-> EkfNew, before |-> EkfNew, v |-> v, a |-> a, dt |-> dt,
   phase |-> "predict", updates |-> 0]

EkfPredictStep ==
  /\ lab.phase = "predict"
  /\ lab.updates < MaxEkfUpdates
  /\ lab' = [lab EXCEPT !.before = lab.ekf, !.ekf = EkfPredict(@, lab.dt),
                        !.phase = "update"]
  /\ UNCHANGED <<ovars, ld>>

EkfUpdateStep ==
  /\ lab.phase = "update"
  /\ lab' = [lab EXCEPT !.ekf = EkfUpdate(@, lab.v, lab.a), !.phase = "predict",
                        !.updates = @ + 1]
  /\ UNCHANGED <<ovars, ld>>

InitEKF ==
  /\ units = "kmh"
  /\ OrchestratorInit
  /\ ld = LdStart(TRUE)
  /\ lab \in {EkfStart(v, a, dt) : v \in EkfSpeeds, a \in EkfAccels, dt \in EkfDts}

NextEKF ==
  \/ EkfPredictStep
  \/ EkfUpdateStep

\* the caller goes on feeding measurements
SpecEKF == InitEKF /\ [][NextEKF]_vars /\ WF_vars(NextEKF)

(***************************************************************************)
(* A ButterworthFilter on its own, low-pass or high-pass: calls of filter  *)
(* and reset.  zeros tells that only all-zero samples were fed since       *)
(* construction or the last reset, used that an earlier sample was not.    *)
(***************************************************************************)
MaxBwCalls == 4
MaxBwResets == 1

ZeroSample == [x |-> 0, y |-> 0, z |-> 0]
BwSamples == {ZeroSample, [x |-> 3000, y |-> 0, z |-> 1000], [x |-> 0 - 500, y |-> 200, z |-> 0]}

CoefficientsOf(filterType) == IF filterType = "lowpass" THEN LowPass ELSE HighPass

BwStart(filterType) ==
  [op |-> "filter", filterType |-> filterType, state |-> initializeHistory,
   out |-> ZeroSample, zeros |-> TRUE, used |-> FALSE, since |-> 0,
   calls |-> 0, resets |-> 0]

BwFilter ==
  /\ lab.calls < MaxBwCalls
  /\ \E data \in BwSamples :
       lab' = [lab EXCEPT
                 !.state = filter(CoefficientsOf(lab.filterType), @, data),
                 !.out = FilterOutput(filter(CoefficientsOf(lab.filterType), lab.state, data)),
                 !.zeros = @ /\ data = ZeroSample,
                 !.used = @ \/ data # ZeroSample,
                 !.since = @ + 1,
                 !.calls = @ + 1]
  /\ UNCHANGED <<ovars, ld>>

BwReset ==
  /\ lab.resets < MaxBwResets
  /\ lab' = [lab EXCEPT !.state = ButterworthReset(@), !.zeros = TRUE, !.since = 0,
                        !.resets = @ + 1]
  /\ UNCHANGED <<ovars, ld>>

InitBW ==
  /\ units = "kmh"
  /\ OrchestratorInit
  /\ ld = LdStart(TRUE)
  /\ lab \in {BwStart(filterType) : filterType \in {"lowpass", "highpass"}}

NextBW ==
  \/ BwFilter
  \/ BwReset

SpecBW == InitBW /\ [][NextBW]_vars

(***************************************************************************)
(* DataProcessing.ts on its own: a trace or window is chosen, then         *)
(* findTimeForSpeed or detectOutliers is called on it.  Times in ms, one   *)
(* point every DpStep; speeds and targets in 0.1 km/h.                     *)
(***************************************************************************)
MaxDpLen == 6
DpStep == 10 * 10
DpSlopes == {10, 20}
DpLevels == {0, 20}
DpTargets == {10, 20, 30}

TraceOf(speeds) == [i \in 1..Len(speeds) |-> [time |-> (i - 1) * DpStep, speed |-> speeds[i]]]

\* speed(t) = k t, sampled n times
LinearTrace(k, n) == TraceOf([i \in 1..n |-> k * (i - 1)])
ConstantTrace(c, n) == TraceOf([i \in 1..n |-> c])

\* windows of which more than half the points are equal, and a ragged one
DpWindows == {<<5, 5, 5, 100>>, <<5, 5, 100, 5, 5>>, <<0, 1, 50, 3, 4>>}

DpInput(kind, k, data, target) ==
  [op |-> "input", kind |-> kind, k |-> k, data |-> data, target |-> target,
   found |-> NULL, flags |-> <<>>, filtered |-> <<>>]

DpInputs ==
  {DpInput("linear", k, LinearTrace(k, n), t) :
     k \in DpSlopes, n \in 0..MaxDpLen, t \in DpTargets}
  \cup {DpInput("constant", 0, ConstantTrace(c, n), t) :
          c \in DpLevels, n \in 1..MaxDpLen, t \in DpTargets}
  \cup {DpInput("window", 0, TraceOf(w), t) : w \in DpWindows, t \in DpTargets}

DpFind ==
  /\ lab.op = "input"
  /\ lab' = [lab EXCEPT !.op = "find", !.found = findTimeForSpeed(lab.data, lab.target)]
  /\ UNCHANGED <<ovars, ld>>

DpDetect ==
  /\ lab.op = "input"
  /\ lab' = [lab EXCEPT !.op = "detect", !.flags = detectOutliers(lab.data, 35)]
  /\ UNCHANGED <<ovars, ld>>

DpFilter ==
  /\ lab.op = "input"
  /\ lab' = [lab EXCEPT !.op = "filter", !.filtered = SGFilter(lab.data)]
  /\ UNCHANGED <<ovars, ld>>

InitDP ==
  /\ units = "kmh"
  /\ OrchestratorInit
  /\ ld = LdStart(TRUE)
  /\ lab \in DpInputs

NextDP ==
  \/ DpFind
  \/ DpDetect
  \/ DpFilter

SpecDP == InitDP /\ [][NextDP]_vars

(***************************************************************************)
(* Properties.                                                             *)
(***************************************************************************)
Idle == ~st.isRunning /\ ~st.waitingForAcceleration

\* the steps that begin a run or clear the results
NewRun == ArmGranted \/ ResetClick \/ SimulateClick

\* C1: within a run, a TimingResults entry that holds a time is not changed
\* by any later step (live sample, distance update, interpolation at stop).
C1WriteOnce ==
  [][NewRun \/ \A l \in Labels : st.times[l] # NULL => st.times'[l] = st.times[l]]_vars

\* C2: between two reset() calls processData returns true at most once.
C2TrueOnce == ld.obs.trues <= 1

\* C3: while every processed sample has horizontal acceleration not above
\* the threshold or vertical acceleration not below the limit, the detector
\* is not confirmed and processData has not returned true.
C3NeverConfirms == ld.obs.weakOnly => (~isLaunched(ld.det) /\ ld.obs.trues = 0)

\* a stream of such samples, three or more, lasting past the sustained duration
C3Witness ==
  /\ ld.obs.weakOnly
  /\ ld.obs.processed >= 3
  /\ Len(ld.det.accelerationHistory) >= 3
  /\ ~ld.det.config.enableFiltering
  /\ \E i \in 1..Len(ld.det.accelerationHistory) :
       ld.det.accelerationHistory[i].x <= ld.det.config.horizontalAccelThreshold
  /\ \E i \in 1..Len(ld.det.accelerationHistory) :
       /\ ld.det.accelerationHistory[i].x > ld.det.config.horizontalAccelThreshold
       /\ ld.det.accelerationHistory[i].z >= ld.det.config.verticalAccelLimit
  /\ ld.det.lastProcessedTime - ld.obs.first >= ld.det.config.sustainedDurationMs

\* C4: a confirmation comes only after the qualifying condition held on every
\* processed sample for sustainedDurationMs, and the first processed sample
\* at or after that span confirms.
C4SustainedOnly ==
  /\ ld.obs.confirmAt # NULL =>
       /\ ld.obs.confirmSince # NULL
       /\ ld.obs.confirmAt - ld.obs.confirmSince >= ld.det.config.sustainedDurationMs
  /\ (/\ ld.obs.qualSince # NULL
      /\ ld.det.lastProcessedTime - ld.obs.qualSince >= ld.det.config.sustainedDurationMs)
       => isLaunched(ld.det)

\* a confirmation whose span began after a sample that did not qualify
C4Witness ==
  /\ ld.obs.confirmAt # NULL
  /\ ld.obs.confirmSince > ld.obs.first
  /\ ld.obs.lastRet

\* C5: stop called when the orchestrator is idle (also right after a stop)
\* changes nothing: no state, no interpolation, no saved record.
C5StopIdempotent == Idle => stopMeasurement(World, StopClosureOf(World)) = World

\* idle after a stop that saved its record
C5Witness == Idle /\ st.hasResults /\ env.saved >= 1

\* C6: after a stop neither the GPS watch nor the motion listener remains.
C6FeedsRemoved ==
  (Idle /\ st.hasResults) => (env.watches = {} /\ env.listeners = <<>>)

\* C7: the trace changes only by one point appended while RUNNING.
C7AppendWhileRunning ==
  [][\/ NewRun
     \/ st.dataPoints' = st.dataPoints
     \/ /\ st.isRunning
        /\ Len(st.dataPoints') = Len(st.dataPoints) + 1
        /\ SubSeq(st.dataPoints', 1, Len(st.dataPoints)) = st.dataPoints]_vars

\* C8: the times of the trace are strictly increasing.
C8TimesIncrease ==
  \A i \in 1..(Len(st.dataPoints) - 1) : st.dataPoints[i].time < st.dataPoints[i + 1].time

\* C9: a fix whose timestamp is not later than that of the previously
\* accepted fix changes neither lastTimestamp nor lastPosition, nor the
\* estimator, the distance or the trace.
C9OutOfOrderRejected ==
  [][\A x \in env.watches : \A pos \in Fixes :
       (/\ Truthy(refs.lastTimestampRef)
        /\ pos.timestamp <= refs.lastTimestampRef
        /\ GpsFixOf(x, pos))
         => /\ refs'.lastTimestampRef = refs.lastTimestampRef
            /\ refs'.lastPositionRef = refs.lastPositionRef
            /\ refs'.ekfRef = refs.ekfRef
            /\ st'.distance = st.distance
            /\ st'.dataPoints = st.dataPoints]_vars

\* C10: both diagonal entries of the estimator's covariance are non-negative.
C10CovarianceNonNegative == refs.ekfRef.P00 >= 0 /\ refs.ekfRef.P11 >= 0

\* C12: for a noiseless trace speed(t) = k t with k > 0 that reaches the
\* target, findTimeForSpeed returns target / k within 10 ms.
C12LinearExact ==
  (/\ lab.op = "find"
   /\ lab.kind = "linear"
   /\ \E i \in 1..Len(lab.data) : lab.data[i].speed >= lab.target)
    => /\ lab.found # NULL
       /\ Abs(lab.found * lab.k - lab.target * DpStep) <= 10 * lab.k

\* C14: detectOutliers returns one flag per point and flags no point of a
\* window whose MAD is zero, a window of equal speeds in particular.
C14ZeroMadNoFlags ==
  (lab.op = "detect" /\ Mad4(Speeds(lab.data)) = 0)
    => /\ Len(lab.flags) = Len(lab.data)
       /\ \A i \in 1..Len(lab.flags) : ~lab.flags[i]

\* a zero-MAD window holding a point far from the others
C14Witness ==
  /\ lab.op = "detect"
  /\ Mad4(Speeds(lab.data)) = 0
  /\ Len(lab.flags) >= 4
  /\ \E i, j \in 1..Len(lab.data) : lab.data[i].speed # lab.data[j].speed

\* C19: findTimeForSpeed returns null for a trace no point of which reaches
\* the target, and for a trace of fewer than 2 points.
C19NotReachedNull ==
  (/\ lab.op = "find"
   /\ \/ Len(lab.data) < 2
      \/ \A i \in 1..Len(lab.data) : lab.data[i].speed < lab.target)
    => lab.found = NULL

\* C13: a filter, low-pass or high-pass, that was fed only all-zero samples
\* since its construction or its last reset returns {x: 0, y: 0, z: 0} on
\* every call.
C13ZeroInZeroOut == (lab.zeros /\ lab.since >= 1) => lab.out = ZeroSample

\* zero samples after a reset that followed a sample that was not zero
C13Witness ==
  /\ lab.zeros
  /\ lab.used
  /\ lab.resets = 1
  /\ lab.since >= 2

EkfError == Abs(lab.ekf.x0 - lab.v)

\* C11: fed the same measurement [v, a] again and again with dt >= 0, the
\* speed estimate never moves away from v, and from some update on it stays
\* within EkfEps of v.
C11Converges ==
  /\ [][lab.dt >= 0 => Abs(lab'.ekf.x0 - lab'.v) <= EkfError]_vars
  /\ <>[](lab.dt >= 0 => EkfError < EkfEps)

\* the estimate has come from 250 km/h off to within EkfEps with dt = 0
C11Witness ==
  /\ lab.dt = 0
  /\ lab.v >= 250 * 1000
  /\ lab.updates >= 100
  /\ EkfError < EkfEps

C17PoorFixDiscarded ==
  [][\A x \in env.watches : \A pos \in Fixes :
       (/\ pos.accuracy > (IF st.isRunning THEN 10 ELSE 20)
        /\ GpsFixOf(x, pos))
         => /\ refs'.lastPositionRef = refs.lastPositionRef
            /\ refs'.lastTimestampRef = refs.lastTimestampRef
            /\ refs'.ekfRef = refs.ekfRef
            /\ st'.speed = st.speed
            /\ st'.distance = st.distance
            /\ st'.dataPoints = st.dataPoints]_vars

PlausibleSpeed(s) == s >= 0 /\ s <= MaxPlausibleSpeed

\* C18: every speed put out by the position-to-speed stage, to the speed
\* display and into the trace, lies between 0 and the maximum.
C18SpeedInRange ==
  /\ PlausibleSpeed(st.speed)
  /\ \A i \in 1..Len(st.dataPoints) : PlausibleSpeed(st.dataPoints[i].speed)

\* C16: within a run, a time written into TimingResults, live or at stop, is
\* not earlier than any time the results already hold.
C16FilledForward ==
  [][NewRun \/ \A l \in Labels :
       (st.times'[l] # st.times[l] /\ st.times'[l] # NULL)
         => \A k \in Labels : st.times[k] # NULL => st.times'[l] >= st.times[k]]_vars

\* C15: while no GPS fix has been delivered, so that every speed handed to
\* the launch detector is 0, the detector does not confirm, whatever
\* accelerometer samples arrive.
C15MotionOnlyNeverConfirms ==
  ld.obs.zeroSpeed => (~isLaunched(ld.det) /\ ld.obs.trues = 0)

\* a call d ms after the last one falls inside the minimum sample interval
RateLimited(d) ==
  (ld.now + d - ld.det.lastProcessedTime) * ld.det.config.samplingRateHz < 1000

\* C21 as stated: once confirmed, isLaunched() stays true across every
\* processData call, whatever acceleration or speed it carries.
C21ConfirmedTerminal ==
  [][(isLaunched(ld.det) /\ LdProcessData) => isLaunched(ld.det)']_vars

\* C21 amended: once confirmed, isLaunched() stays true across every
\* processData call that is discarded by the rate limit or whose speed is not
\* above speedThreshold, whatever acceleration it carries; a processed sample
\* with speed above speedThreshold resets the detector from inside.
C21ConfirmedUntilMoving ==
  [][\A d \in LdSteps : \A in \in LdInputs :
       (/\ isLaunched(ld.det)
        /\ LdCall(d, in)
        /\ RateLimited(d) \/ in.speed <= ld.det.config.speedThreshold)
         => isLaunched(ld.det)']_vars

\* confirmed, and still confirmed after a later processed sample that did
\* not qualify
C21Witness ==
  /\ isLaunched(ld.det)
  /\ ld.obs.confirmAt # NULL
  /\ ld.det.lastProcessedTime > ld.obs.confirmAt
  /\ ld.det.launchStartTime = NULL

\* C22: a processed sample with speed above speedThreshold leaves the
\* detector idle: no candidate start time, launch status false, both
\* history buffers empty, and the call returns false.
C22MovingResets ==
  [][\A d \in LdSteps : \A in \in LdInputs :
       (LdCall(d, in) /\ ~RateLimited(d) /\ in.speed > ld.det.config.speedThreshold)
         => (/\ ld.det.launchStartTime = NULL
             /\ ~isLaunched(ld.det)
             /\ ld.det.accelerationHistory = <<>>
             /\ ld.det.filteredHistory = <<>>
             /\ ~ld.obs.lastRet)']_vars

\* a confirmed detector taken back to idle by such a sample
C22Witness ==
  /\ ld.obs.confirmAt # NULL
  /\ ld.det.lastProcessedTime > ld.obs.confirmAt
  /\ ~ld.obs.zeroSpeed
  /\ ~isLaunched(ld.det)
  /\ ld.det.accelerationHistory = <<>>

\* C23: a call inside the minimum sample interval changes neither the
\* detector (candidate start time, launch status, histories, time of the last
\* processed sample) nor the filter state, and returns the launch status.
C23RateLimitedDiscarded ==
  [][\A d \in LdSteps : \A in \in LdInputs :
       (LdCall(d, in) /\ RateLimited(d))
         => /\ ld.det' = ld.det
            /\ ld.filters' = ld.filters
            /\ ld.obs.lastRet' = isLaunched(ld.det)]_vars

\* a candidate that has seen a discarded call: fewer samples processed than calls
C23Witness ==
  /\ ld.resets = 0
  /\ ld.obs.processed >= 1
  /\ ld.obs.processed < ld.calls
  /\ ld.det.launchStartTime # NULL
  /\ ld.det.lastProcessedTime < ld.now

\* C24: SavitzkyGolayFilter.filter returns a constant trace of 5 or more
\* points unchanged: every output speed equals the input speed, at the first
\* two, the interior and the last two positions.
C24ConstantPreserved ==
  (lab.op = "filter" /\ lab.kind = "constant" /\ Len(lab.data) >= 5)
    => /\ Len(lab.filtered) = Len(lab.data)
       /\ \A i \in 1..Len(lab.data) : lab.filtered[i].speed = lab.data[i].speed

\* C25: once a run has been promoted from ARMED to RUNNING, a further
\* trigger (a motion event or a GPS fix) of the same armed period neither
\* overwrites the run's start time nor restarts GPS tracking.
C25PromotedOnce ==
  [][(st.isMeasuring /\ Truthy(refs.startTimeRef) /\ (GpsFix \/ MotionEvent))
       => \/ ~st.isMeasuring'
          \/ /\ refs.startTimeRef' = refs.startTimeRef
             /\ refs.watchIdRef' = refs.watchIdRef
             /\ env.watches' = env.watches]_vars

\* the two speeds differ by more than a quarter of their mean, and the mean
\* is above 2.78 m/s
Diverge(calculated, gpsSpeed) ==
  /\ 4 * Abs(calculated - gpsSpeed) * 2 > calculated + gpsSpeed
  /\ calculated + gpsSpeed > 2 * 2780

BothSpeeds ==
  /\ lab.calls >= 1
  /\ lab.gpsSpeed # NULL /\ lab.gpsSpeed >= 0
  /\ lab.calculated # 0

\* C26 as stated: with a valid receiver speed and a position-derived
\* estimate both at hand, the speed used is the receiver's, or the lower of
\* the two when they diverge at driving speed.
C26ReceiverPreferred ==
  BothSpeeds =>
    lab.speedMs = IF Diverge(lab.calculated, lab.gpsSpeed)
                  THEN Min(lab.calculated, lab.gpsSpeed)
                  ELSE lab.gpsSpeed

\* C26 amended: with both at hand the speed used is the position-derived
\* estimate, or the lower of the two when they diverge at driving speed; the
\* receiver's speed is used when there is no position-derived estimate.
C26PositionPreferred ==
  /\ BothSpeeds =>
       lab.speedMs = IF Diverge(lab.calculated, lab.gpsSpeed)
                     THEN Min(lab.calculated, lab.gpsSpeed)
                     ELSE lab.calculated
  /\ (lab.calls >= 1 /\ lab.gpsSpeed # NULL /\ lab.calculated = 0)
       => lab.speedMs = lab.gpsSpeed

\* both at hand, different and in agreement: the position-derived one is used
C26Witness ==
  /\ BothSpeeds
  /\ lab.gpsSpeed # lab.calculated
  /\ ~Diverge(lab.calculated, lab.gpsSpeed)
  /\ lab.speedMs = lab.calculated

\* C29: the distance accumulated by the fixes delivered to a running
\* tracker never decreases.
C29DistanceNeverDecreases ==
  [][(lab.hp.snap.isRunning /\ TrackerDeliver) => st.distance' >= st.distance]_vars

\* the trace shows the threshold as reached
Reached(dataPoints, target) == \E i \in 1..Len(dataPoints) : dataPoints[i].speed >= target

\* C27: after a stop, every configured threshold that the trace shows as
\* reached has a time in the results.
C27ReachedAreTimed ==
  [][StopClick =>
       \A i \in 1..Len(getTargets(units).speeds) :
         Reached(st.dataPoints, getTargets(units).speeds[i])
           => st.times'[getTargets(units).labels[i]] # NULL]_vars

\* what the two methods of findTimeForSpeed accept for the trace of lab
SmoothedOf(data) == IF Len(data) < 2 THEN <<>> ELSE SGFilter(removeOutliers(data, 30))
LinearRoots == LinearResults(SmoothedOf(lab.data), 1, lab.target)
QuadraticRoot ==
  IF Len(SmoothedOf(lab.data)) >= 4
  THEN polynomialInterpolation(SmoothedOf(lab.data), lab.target)
  ELSE NULL
AcceptedRoots == WithPoly(LinearRoots, QuadraticRoot)

\* the k-th smallest of the values of roots, by counting
Ranked(roots, k) ==
  CHOOSE x \in {roots[i] : i \in 1..Len(roots)} :
    /\ Cardinality({i \in 1..Len(roots) : roots[i] < x}) < k
    /\ Cardinality({i \in 1..Len(roots) : roots[i] <= x}) >= k

Median(roots) ==
  IF Len(roots) % 2 = 1 THEN Ranked(roots, (Len(roots) + 1) \div 2)
  ELSE (Ranked(roots, Len(roots) \div 2) + Ranked(roots, Len(roots) \div 2 + 1)) \div 2

\* C28: findTimeForSpeed returns the median of all the roots accepted by the
\* linear and the quadratic method, the mean of the two middle ones when
\* their number is even; when only one method accepts roots the result is
\* the median of those and not null; with no root at all it is null.
C28MedianOfRoots ==
  lab.op = "find" =>
    IF AcceptedRoots = <<>> THEN lab.found = NULL
    ELSE lab.found # NULL /\ lab.found = Median(AcceptedRoots)

\* both methods accept roots, an even number of them, and they differ
C28Witness ==
  /\ lab.op = "find"
  /\ LinearRoots # <<>>
  /\ QuadraticRoot # NULL
  /\ Len(AcceptedRoots) % 2 = 0
  /\ Ranked(AcceptedRoots, 1) # Ranked(AcceptedRoots, Len(AcceptedRoots))

\* C30: at most one watch registered by the tracker is active, and the
\* tracker holds the handle of every active watch.
C30AtMostOneWatch ==
  /\ Cardinality(env.watches) <= 1
  /\ \A x \in env.watches : x.id = refs.watchIdRef

\* the step promotes the armed orchestrator to a run (or sets a run's start again)
Promoted(oldSt, oldRefs, newSt, newRefs) ==
  /\ newSt.isMeasuring
  /\ ~oldSt.isMeasuring \/ newRefs.startTimeRef # oldRefs.startTimeRef

\* C31: whenever the armed orchestrator is promoted to a run the state
\* estimator is as constructed (speed 0, acceleration 0, covariance 1 and 1),
\* and reset() of the estimator of any state gives that same estimator.
C31EstimatorInitialAtStart ==
  [][/\ Promoted(st, refs, st', refs') => refs.ekfRef' = EkfNew
     /\ EkfReset(refs.ekfRef') = EkfNew]_vars

\* a run promoted by a fix: the fix went through the estimator first
C31Witness ==
  /\ st.isMeasuring
  /\ st.isRunning
  /\ refs.startTimeRef = env.now
  /\ env.fixes >= 1
  /\ st.speed > MinMotionSpeed
  /\ refs.ekfRef = EkfNew

\* C32: after reset() every call on the detector returns what the same call
\* returns on a detector constructed at the reset with the same configuration.
C32ResetAsNew == lab.op = "twin" => ld.obs.lastRet = lab.ret

\* C33: the acceleration the launch detector checks is the output of a
\* filter that has seen only the samples the detector itself passed to it.
C33OwnSamplesOnly == (lab.op = "shared" /\ lab.processed) => lab.seen = lab.expected

\* C34: the step in which the distance of a run reaches the half mile
\* records the halfMile time and ends the run with one stop processing, and
\* neither the rest of the simulation nor its end processes a stop again.
C34HalfMileStopsOnce ==
  [][/\ (st.isRunning /\ st.distance < HalfMileMm /\ st.distance' >= HalfMileMm)
          => /\ ~st.isRunning'
             /\ Truthy(st.times'["halfMile"])
             /\ env.saved' = env.saved + 1
     /\ (Idle /\ st.distance >= HalfMileMm /\ (FullSimTick \/ FullSimComplete \/ Tick))
          => (Idle' /\ env.saved' = env.saved)]_vars

\* stopped by the half mile, the simulation has ended since
C34Witness ==
  /\ Idle
  /\ st.hasResults
  /\ env.saved = 1
  /\ Truthy(st.times["halfMile"])
  /\ st.distance >= HalfMileMm
  /\ env.sims = <<>>

\* START was pressed and the launch is awaited
IsArmed ==
  /\ st.startTriggered
  /\ st.waitingForAcceleration
  /\ refs.waitingForAccelerationRef
  /\ ~st.isRunning

Strong(a) ==
  a.x * a.x + a.y * a.y + a.z * a.z > AccelerationThreshold * AccelerationThreshold

MotionOf(a) ==
  /\ env.motions < MaxMotion
  /\ env.listeners # <<>>
  /\ Handled(MotionListeners([World EXCEPT !.env.motions = @ + 1], 1, a))

\* C35: an acceleration above the threshold delivered to the armed
\* orchestrator starts the run and sets its start time at that moment, and
\* without START pressed no acceleration and no fix starts a run.
C35StartsWhenTriggered ==
  [][/\ \A a \in MotionSamples :
          (IsArmed /\ Strong(a) /\ MotionOf(a))
            => (st.isRunning' /\ refs.startTimeRef' = env.now)
     /\ (~st.startTriggered /\ ~st.isRunning /\ (GpsFix \/ MotionEvent))
          => ~st.isRunning']_vars

\* C36: when the permission asked for at the start is denied the
\* orchestrator does not arm, registers no watch, and leaves the results and
\* the trace as they are; an idle orchestrator stays idle.
C36DeniedStaysIdle ==
  [][ArmDenied =>
       /\ st.startTriggered' = st.startTriggered
       /\ st.waitingForAcceleration' = st.waitingForAcceleration
       /\ st.isRunning' = st.isRunning
       /\ st.isMeasuring' = st.isMeasuring
       /\ env.watches' = env.watches
       /\ env.listeners' = env.listeners
       /\ st.times' = st.times
       /\ st.dataPoints' = st.dataPoints
       /\ st.hasResults' = st.hasResults
       /\ Idle => Idle']_vars

\* the only start of the session was denied
C36Witness ==
  /\ st.gpsStatus.s = "GPS permission denied"
  /\ env.arms >= 1
  /\ env.pending = <<>>
  /\ env.mount = "done"
  /\ env.saved = 0
  /\ env.simsStarted = 0
  /\ Idle
  /\ ~st.startTriggered
  /\ env.watches = {}

\* C37: update([s, a]) moves the speed estimate by K0 (s - x0) with
\* K0 = P00 / (P00 + R00) and multiplies P00 by 1 - K0; the speed estimate
\* and P00 are the same whatever a is, the acceleration estimate and P11 the
\* same whatever s is.
C37UpdatePerState ==
  [][EkfUpdateStep =>
       /\ lab.ekf'.x0 = lab.ekf.x0
                          + (EkfGain(lab.ekf.P00, R00) * (lab.v - lab.ekf.x0)) \div KScale
       /\ lab.ekf'.P00 = (lab.ekf.P00 * (KScale - EkfGain(lab.ekf.P00, R00))) \div KScale
       /\ \A a \in EkfAccels \cup {0 - 3000, 9810} :
            /\ EkfUpdate(lab.ekf, lab.v, a).x0 = lab.ekf'.x0
            /\ EkfUpdate(lab.ekf, lab.v, a).P00 = lab.ekf'.P00
       /\ \A s \in EkfSpeeds \cup {0 - 1000, 1} :
            /\ EkfUpdate(lab.ekf, s, lab.a).x1 = lab.ekf'.x1
            /\ EkfUpdate(lab.ekf, s, lab.a).P11 = lab.ekf'.P11]_vars

\* an update with estimates, measurement and innovations that are not zero
C37Witness ==
  /\ lab.op = "ekf"
  /\ lab.phase = "predict"
  /\ lab.updates >= 2
  /\ lab.v # 0
  /\ lab.a # 0
  /\ lab.ekf.x0 # 0
  /\ lab.ekf.x1 # 0
  /\ lab.ekf.x0 # lab.v
  /\ lab.ekf.x1 # lab.a

\* the outputs of two calls of filter from the state given
TwoOutputs(coef, state, d1, d2) ==
  <<FilterOutput(filter(coef, state, d1)),
    FilterOutput(filter(coef, filter(coef, state, d1), d2))>>

\* C38: right after reset() every history of the filter is zero-filled and
\* its outputs for the samples that follow are those of a filter just
\* constructed with the same parameters; the output of an axis is the same
\* whatever the other two axes are fed.
C38ResetAsConstructed ==
  lab.op = "filter" =>
    /\ (lab.resets >= 1 /\ lab.since = 0) =>
         /\ lab.state = initializeHistory
         /\ \A d1 \in BwSamples : \A d2 \in BwSamples :
              TwoOutputs(CoefficientsOf(lab.filterType), lab.state, d1, d2)
                = TwoOutputs(CoefficientsOf(lab.filterType), initializeHistory, d1, d2)
    /\ \A d1 \in BwSamples : \A d2 \in BwSamples :
         /\ filter(CoefficientsOf(lab.filterType), lab.state, [d2 EXCEPT !.x = d1.x]).x
              = filter(CoefficientsOf(lab.filterType), lab.state, d1).x
         /\ filter(CoefficientsOf(lab.filterType), lab.state, [d2 EXCEPT !.y = d1.y]).y
              = filter(CoefficientsOf(lab.filterType), lab.state, d1).y
         /\ filter(CoefficientsOf(lab.filterType), lab.state, [d2 EXCEPT !.z = d1.z]).z
              = filter(CoefficientsOf(lab.filterType), lab.state, d1).z

\* a reset right after two samples that were not zero
C38Witness ==
  /\ lab.op = "filter"
  /\ lab.resets = 1
  /\ lab.since = 0
  /\ lab.used
  /\ lab.calls >= 2
  /\ lab.out # ZeroSample

\* C39: filter returns an input of fewer than 5 points as it is; for 5 or
\* more points it returns as many points, each with the time of the input
\* point at its position, and the input is as it was before the call.
C39FilterKeepsTimes ==
  [][DpFilter =>
       /\ lab.data' = lab.data
       /\ Len(lab.data) < 5 => lab.filtered' = lab.data
       /\ Len(lab.filtered') = Len(lab.data)
       /\ \A i \in 1..Len(lab.data) : lab.filtered'[i].time = lab.data[i].time]_vars

\* five or more points of which the filter changed a speed
C39Witness ==
  /\ lab.op = "filter"
  /\ Len(lab.data) >= 5
  /\ Len(lab.filtered) = Len(lab.data)
  /\ \E i \in 1..Len(lab.data) : lab.filtered[i].speed # lab.data[i].speed
  /\ \E i \in 1..Len(lab.data) : lab.data[i].time # 0

====
